---- MODULE Spec2Model ----
(***************************************************************************)
(* lloyal::InlinedVector<T, N, Alloc> (src/include/inlined_vector.hpp):    *)
(* a vector that keeps up to N elements in an inline buffer (InlineBuf)    *)
(* and spills to a std::vector (HeapVec) beyond that.                      *)
(*                                                                         *)
(* A container is a record [st, elems, cap]:                               *)
(*   st    - the active alternative of the std::variant storage_:          *)
(*           "Inline", "Heap", or "Valueless" (valueless_by_exception);    *)
(*   elems - the live elements in order; MovedFrom marks an element whose  *)
(*           value was moved out of it;                                    *)
(*   cap   - the capacity of the heap vector (0 unless st = "Heap").       *)
(* Every element construction that can throw is a numbered step of its     *)
(* operation; the input f of an operation names the step that throws       *)
(* (NoFail: none does).                                                    *)
(***************************************************************************)
EXTENDS Integers, Sequences, FiniteSets, TLC

VARIABLES T, v, live, last, pushed, alloc_net, w, Alloc, alloc_, vec_alloc

vars == <<T, v, live, last, pushed, alloc_net, w, Alloc, alloc_, vec_alloc>>

(* ---------------- bounds ---------------- *)
\* inline capacity (template parameter N)
N == 2
\* largest number of elements a container is grown to
MaxSize == 3
\* largest argument of reserve / resize
MaxCap == 5
\* largest imbalance |constructions - destructions - size| that is followed
MaxImbalance == 2

\* sample element values; MovedFrom is the value of a moved-from element
Values == {0, 1}
MovedFrom == -1
\* the value of a value-initialised element (resize(n))
DefaultValue == 0

NoFail == -1

(* ---------------- element types ---------------- *)
\* The traits of T the code dispatches on, and which of its operations throw.
\*   trivial      std::is_trivially_copyable_v<T>
\*   nxMoveCtor   std::is_nothrow_move_constructible_v<T>
\*   nxMoveAsg    std::is_nothrow_move_assignable_v<T>
\*   copyCtor     std::is_copy_constructible_v<T>
\*   copyAsg      std::is_copy_assignable_v<T>
\*   copyThrows   the copy constructor may throw
\*   copyAsgThrows  the copy assignment operator may throw
\*   moveMarks    the move constructor overwrites the value of its source
\*   moveAsg      std::is_move_assignable_v<T>
\*   ctorThrows   the default constructor may throw
TInt ==
    [name |-> "int", trivial |-> TRUE, nxMoveCtor |-> TRUE, nxMoveAsg |-> TRUE,
     copyCtor |-> TRUE, copyAsg |-> TRUE, copyThrows |-> FALSE,
     copyAsgThrows |-> FALSE, moveMarks |-> FALSE, moveAsg |-> TRUE, ctorThrows |-> FALSE]
TThrowingCopy ==
    [name |-> "ThrowingCopy", trivial |-> FALSE, nxMoveCtor |-> TRUE, nxMoveAsg |-> TRUE,
     copyCtor |-> TRUE, copyAsg |-> TRUE, copyThrows |-> TRUE,
     copyAsgThrows |-> FALSE, moveMarks |-> TRUE, moveAsg |-> TRUE, ctorThrows |-> FALSE]
TThrowOnMoveCtor ==
    [name |-> "ThrowOnMoveCtor", trivial |-> FALSE, nxMoveCtor |-> FALSE, nxMoveAsg |-> TRUE,
     copyCtor |-> TRUE, copyAsg |-> TRUE, copyThrows |-> FALSE,
     copyAsgThrows |-> FALSE, moveMarks |-> TRUE, moveAsg |-> TRUE, ctorThrows |-> FALSE]
TCopyConstructibleOnly ==
    [name |-> "CopyConstructibleOnly", trivial |-> FALSE, nxMoveCtor |-> TRUE, nxMoveAsg |-> TRUE,
     copyCtor |-> TRUE, copyAsg |-> FALSE, copyThrows |-> FALSE,
     copyAsgThrows |-> FALSE, moveMarks |-> FALSE, moveAsg |-> TRUE, ctorThrows |-> FALSE]
TMoveThrowsNoCopy ==
    [name |-> "MoveThrowsNoCopy", trivial |-> FALSE, nxMoveCtor |-> FALSE, nxMoveAsg |-> TRUE,
     copyCtor |-> FALSE, copyAsg |-> FALSE, copyThrows |-> FALSE,
     copyAsgThrows |-> FALSE, moveMarks |-> TRUE, moveAsg |-> TRUE, ctorThrows |-> FALSE]
\* a type none of whose move and copy operations is noexcept
TThrowingMoves ==
    [name |-> "ThrowingMoves", trivial |-> FALSE, nxMoveCtor |-> FALSE, nxMoveAsg |-> FALSE,
     copyCtor |-> TRUE, copyAsg |-> TRUE, copyThrows |-> TRUE,
     copyAsgThrows |-> TRUE, moveMarks |-> TRUE, moveAsg |-> TRUE, ctorThrows |-> TRUE]

\* element types without assignment operators: trivially copyable
\* (TrivialNonAssignable), and with a user-provided move constructor (the
\* "Non-Assignable Types" of the class documentation)
TTrivialNonAssignable ==
    [name |-> "TrivialNonAssignable", trivial |-> TRUE, nxMoveCtor |-> TRUE, nxMoveAsg |-> FALSE,
     copyCtor |-> TRUE, copyAsg |-> FALSE, copyThrows |-> FALSE,
     copyAsgThrows |-> FALSE, moveMarks |-> FALSE, moveAsg |-> FALSE, ctorThrows |-> FALSE]
TNonAssignable ==
    [name |-> "NonAssignable", trivial |-> FALSE, nxMoveCtor |-> TRUE, nxMoveAsg |-> FALSE,
     copyCtor |-> TRUE, copyAsg |-> FALSE, copyThrows |-> FALSE,
     copyAsgThrows |-> FALSE, moveMarks |-> TRUE, moveAsg |-> FALSE, ctorThrows |-> FALSE]

NonAssignableTypes == {TTrivialNonAssignable, TNonAssignable}

ElementTypes ==
    {TInt, TThrowingCopy, TThrowOnMoveCtor, TCopyConstructibleOnly, TMoveThrowsNoCopy,
     TThrowingMoves}

(* ---------------- allocator types ---------------- *)
\* The traits of Alloc the code dispatches on:
\*   pocca   propagate_on_container_copy_assignment
\*   pocma   propagate_on_container_move_assignment
\*   pocs    propagate_on_container_swap
\*   isAE    is_always_equal
StdAllocator ==
    [name |-> "std::allocator", pocca |-> FALSE, pocma |-> TRUE, pocs |-> FALSE, isAE |-> TRUE]
TestAllocator ==
    [name |-> "TestAllocator", pocca |-> FALSE, pocma |-> TRUE, pocs |-> FALSE, isAE |-> FALSE]
TestAllocatorPOCS ==
    [name |-> "TestAllocatorPOCS", pocca |-> FALSE, pocma |-> TRUE, pocs |-> TRUE, isAE |-> FALSE]
\* std::pmr::polymorphic_allocator: nothing propagates
PolymorphicAllocator ==
    [name |-> "polymorphic_allocator", pocca |-> FALSE, pocma |-> FALSE, pocs |-> FALSE,
     isAE |-> FALSE]
\* an allocator that propagates on copy assignment only
CopyPropagatingAllocator ==
    [name |-> "CopyPropagatingAllocator", pocca |-> TRUE, pocma |-> FALSE, pocs |-> FALSE,
     isAE |-> FALSE]

AllocatorTypes ==
    {StdAllocator, TestAllocator, TestAllocatorPOCS, PolymorphicAllocator,
     CopyPropagatingAllocator}

\* Allocator instances: two instances compare equal when they have the same
\* id. NoAlloc: no allocator instance (no heap vector).
NoAlloc == 0
AllocIds == IF Alloc.isAE THEN {1} ELSE {1, 2}

\* the value left in an element after it was the source of a move
Mv(x) == IF T.moveMarks THEN MovedFrom ELSE x

\* the elements s after those at the indices I were moved from
MovedOut(s, I) == [i \in DOMAIN s |-> IF i \in I THEN Mv(s[i]) ELSE s[i]]

MoveCtorThrows == ~T.nxMoveCtor
MoveAsgThrows == T.moveAsg /\ ~T.nxMoveAsg
CopyCtorThrows == T.copyThrows
CopyAsgThrows == T.copyAsgThrows
DefaultCtorThrows == T.ctorThrows

\* std::move_if_noexcept(x) is an rvalue (moves) unless the move constructor
\* may throw and T is copy constructible
MoveIfNoexceptMoves == T.nxMoveCtor \/ ~T.copyCtor

(* ---------------- value arguments ---------------- *)
\* A value argument: rv - passed as an rvalue (T&&); ali - 0 for an object
\* outside the container, else the (1-based) index of the element of this
\* container it refers to; val - its value when outside.
ExternalSrcs == [rv : BOOLEAN, ali : {0}, val : Values]
AliasSrcs(c) == [rv : BOOLEAN, ali : 1..Len(c.elems), val : {MovedFrom}]
Srcs(c) == {s \in ExternalSrcs \cup AliasSrcs(c) : s.rv \/ T.copyCtor}

\* the value read through the argument when the buffer holds elemsNow
SrcAt(elemsNow, src) == IF src.ali = 0 THEN src.val ELSE elemsNow[src.ali]

\* constructing an element from the argument may throw
SrcCtorThrows(src) == IF src.rv THEN MoveCtorThrows ELSE CopyCtorThrows

\* (mutant) a move from an element of the container leaves it as it was
AfterSrcUsed_untouched(elemsNow, src) == elemsNow

\* the buffer after an element was constructed from the argument
AfterSrcUsed(elemsNow, src) ==
    IF src.rv /\ src.ali # 0 THEN MovedOut(elemsNow, {src.ali}) ELSE elemsNow

(* ---------------- storage ---------------- *)
EmptyInline == [st |-> "Inline", elems |-> << >>, cap |-> 0]
ValuelessStorage == [st |-> "Valueless", elems |-> << >>, cap |-> 0]
\* no container: the object was not constructed
Absent == [st |-> "None", elems |-> << >>, cap |-> 0]
InlineOf(s) == [st |-> "Inline", elems |-> s, cap |-> 0]
HeapOf(s, k) == [st |-> "Heap", elems |-> s, cap |-> k]

is_valueless_(c) == c.st = "Valueless"

\* (mutant) the valueless storage is left as it is
recover_never(c) == c

recover_if_valueless_(c) == IF is_valueless_(c) THEN EmptyInline ELSE c

is_inline(c) == IF is_valueless_(c) THEN TRUE ELSE c.st = "Inline"

size(c) == IF is_valueless_(c) THEN 0 ELSE Len(c.elems)

capacity(c) ==
    IF is_valueless_(c) THEN N
    ELSE IF c.st = "Inline" THEN N ELSE c.cap

empty(c) == size(c) = 0

(* ---------------- results of an operation ---------------- *)
\* c: the container afterwards; ok: FALSE when an exception reached the
\* caller; valid: the step f exists in this call and can throw; dl: element
\* constructions minus destructions not accounted for by size().
Done(c) == [c |-> c, ok |-> TRUE, valid |-> TRUE, dl |-> 0, ret |-> 0]
Thrown(c, valid) == [c |-> c, ok |-> FALSE, valid |-> valid, dl |-> 0, ret |-> 0]

Max(a, b) == IF a > b THEN a ELSE b
Min(a, b) == IF a < b THEN a ELSE b

\* (mutant) the new element lands one slot late
InsertAt_late(s, idx, x) ==
    IF idx < Len(s)
    THEN SubSeq(s, 1, idx + 1) \o <<x>> \o SubSeq(s, idx + 2, Len(s))
    ELSE Append(s, x)

InsertAt(s, idx, x) == SubSeq(s, 1, idx) \o <<x>> \o SubSeq(s, idx + 1, Len(s))
\* (mutant) the elements are dropped at the back, wherever the range lies
RemoveRange_from_back(s, start, cnt) == SubSeq(s, 1, Len(s) - cnt)

RemoveRange(s, start, cnt) == SubSeq(s, 1, start) \o SubSeq(s, start + cnt + 1, Len(s))

\* (mutant) the spill reserves room for the old elements only
SpillCapacity_old_size(old_size) == old_size

\* (mutant) the spill makes room for the one new element only
SpillCapacity_one_more(old_size) == old_size + 1

\* new heap capacity of a spill
SpillCapacity(old_size) == Max(N * 2, old_size + (old_size \div 2) + 1)

(* ---------------- std::vector<T, Alloc> ---------------- *)
\* HeapVec::emplace_back(args): in place when size < capacity, else a
\* reallocation to size + max(size, 1): step 0 allocates, step 1 constructs the
\* new element, steps 2.. relocate the old ones by std::move_if_noexcept.
\* Without reallocation step 0 constructs the new element.
HeapVec_emplace_back(c, src, f) ==
    LET n == Len(c.elems)
        x == SrcAt(c.elems, src)
        grown == Append(AfterSrcUsed(c.elems, src), x)
    IN IF n < c.cap
       THEN IF f = NoFail THEN Done([c EXCEPT !.elems = grown])
            ELSE Thrown(c, f = 0 /\ SrcCtorThrows(src))
       ELSE IF f = NoFail THEN Done(HeapOf(grown, n + Max(n, 1)))
            ELSE IF f = 0 THEN Thrown(c, TRUE)
            ELSE IF f = 1 THEN Thrown(c, SrcCtorThrows(src))
            ELSE Thrown([c EXCEPT !.elems =
                            IF MoveIfNoexceptMoves
                            THEN MovedOut(AfterSrcUsed(c.elems, src), 1..(f - 2))
                            ELSE AfterSrcUsed(c.elems, src)],
                        f - 1 <= n /\ (IF MoveIfNoexceptMoves THEN MoveCtorThrows
                                       ELSE CopyCtorThrows))

(* ---------------- emplace_back / push_back ---------------- *)
\* (mutant) the spill moves the old elements and forgets the new one
emplace_back_spill_forgets(c0, src, f) ==
    LET c == recover_if_valueless_(c0)
        old_size == Len(c.elems)
    IN IF c.st = "Inline"
       THEN IF old_size < N
            THEN IF f = NoFail
                 THEN Done(InlineOf(Append(AfterSrcUsed(c.elems, src), SrcAt(c.elems, src))))
                 ELSE Thrown(c, f = 0 /\ SrcCtorThrows(src))
            ELSE IF f = NoFail THEN Done(HeapOf(c.elems, SpillCapacity(old_size)))
                 ELSE Thrown(c, f = 0)
       ELSE HeapVec_emplace_back(c, src, f)

\* Inline with room: step 0 constructs the element in place.
\* Inline and full (spill): step 0 is vec.reserve(new_cap), steps 1..old_size
\* move the elements with std::move, step old_size + 1 constructs the new
\* element from the argument, then storage_ = std::move(vec).
emplace_back(c0, src, f) ==
    LET c == recover_if_valueless_(c0)
        old_size == Len(c.elems)
    IN IF c.st = "Inline"
       THEN IF old_size < N
            THEN IF f = NoFail
                 THEN Done(InlineOf(Append(AfterSrcUsed(c.elems, src), SrcAt(c.elems, src))))
                 ELSE Thrown(c, f = 0 /\ SrcCtorThrows(src))
            ELSE LET moved == MovedOut(c.elems, 1..old_size)
                 IN IF f = NoFail
                    THEN Done(HeapOf(Append(c.elems, SrcAt(moved, src)),
                                     SpillCapacity(old_size)))
                    ELSE IF f = 0 THEN Thrown(c, TRUE)
                    ELSE IF f <= old_size
                         THEN Thrown(InlineOf(MovedOut(c.elems, 1..(f - 1))), MoveCtorThrows)
                    ELSE Thrown(InlineOf(moved), f = old_size + 1 /\ SrcCtorThrows(src))
       ELSE HeapVec_emplace_back(c, src, f)

(* ---------------- rebuild into a second buffer ---------------- *)
\* The loop shared by every rebuild that inserts: the elements before idx are
\* relocated into the new buffer (steps 0..idx-1), the new element is
\* constructed from the argument (step idx), the elements from idx on are
\* relocated (steps idx+1..old_size). moves: the relocation is a move
\* construction; relocThrows: it may throw.
\*   left  - the source buffer when the loop ends (normally or by exception)
\*   built - the new buffer when the loop completes
RebuildInsert(elems, idx, src, f, moves, relocThrows) ==
    LET old_size == Len(elems)
        relocated == IF f = NoFail THEN old_size ELSE IF f <= idx THEN f ELSE f - 1
        srcBuilt == f = NoFail \/ f > idx
        atSrc == IF moves THEN MovedOut(elems, 1..idx) ELSE elems
        left0 == IF moves THEN MovedOut(elems, 1..relocated) ELSE elems
    IN [valid |-> \/ f = NoFail
                  \/ /\ f \in 0..old_size
                     /\ IF f = idx THEN SrcCtorThrows(src) ELSE relocThrows,
        left  |-> IF srcBuilt THEN AfterSrcUsed(left0, src) ELSE left0,
        built |-> InsertAt(elems, idx, SrcAt(atSrc, src))]

\* The loop shared by every rebuild that erases [start, start + cnt): the kept
\* elements are relocated in order, steps 0..keep-1.
RebuildErase(elems, start, cnt, f, moves, relocThrows) ==
    LET keep == Len(elems) - cnt
        kept == 1..start \cup (start + cnt + 1)..Len(elems)
        \* the kept elements relocated before step f
        done == IF f = NoFail THEN kept
                ELSE {i \in kept : (IF i <= start THEN i - 1 ELSE i - cnt - 1) < f}
    IN [valid |-> f = NoFail \/ (f \in 0..(keep - 1) /\ relocThrows),
        left  |-> IF moves THEN MovedOut(elems, done) ELSE elems,
        built |-> RemoveRange(elems, start, cnt)]

(* ---------------- InlineBuf::swap ---------------- *)
\* this->swap(tmp) where tmp holds `built` and this holds `mine`. The common
\* prefix is exchanged with std::swap (T t(std::move(a)); a = std::move(b);
\* b = std::move(t): three steps per pair), the tail of the longer buffer is
\* move-constructed into the shorter one and destroyed at its source (one step
\* per element), then the sizes are exchanged. Steps are numbered from 0; the
\* result is the content of this buffer and whether step f can throw.
\* When a tail step throws, the k elements already moved across lie beyond
\* the size of the buffer that received them (never destroyed) and are still
\* counted by the size of the buffer they left (destroyed a second time):
\* constructions and destructions stay equal in number.
InlineBuf_swap(mine, built, f) ==
    LET a == Len(mine)
        b == Len(built)
        min_sz == Min(a, b)
        pairSteps == 3 * min_sz
    IN IF f = NoFail THEN [valid |-> TRUE, elems |-> built]
       ELSE IF f < pairSteps
       THEN LET i == f \div 3
                sub == f % 3
            IN [valid |-> IF sub = 0 THEN MoveCtorThrows ELSE MoveAsgThrows,
                elems |-> [j \in 1..a |->
                             IF j <= i THEN built[j]
                             ELSE IF j = i + 1
                                  THEN (IF sub = 0 THEN mine[j]
                                        ELSE IF sub = 1 THEN Mv(mine[j])
                                        ELSE built[j])
                             ELSE mine[j]]]
       ELSE LET k == f - pairSteps
            IN IF b > a
               THEN [valid |-> k < b - a /\ MoveCtorThrows,
                     elems |-> SubSeq(built, 1, min_sz)]
               ELSE [valid |-> k < a - b /\ MoveCtorThrows,
                     elems |-> [j \in 1..a |->
                                  IF j <= min_sz THEN built[j]
                                  ELSE IF j <= min_sz + k THEN Mv(mine[j])
                                  ELSE mine[j]]]

\* The content of the other buffer (tmp, which held `built`) after the same
\* this->swap(tmp), under the same numbering of steps.
InlineBuf_swap_other(mine, built, f) ==
    LET a == Len(mine)
        b == Len(built)
        min_sz == Min(a, b)
        pairSteps == 3 * min_sz
    IN IF f = NoFail THEN mine
       ELSE IF f < pairSteps
       THEN LET i == f \div 3
                sub == f % 3
            IN [j \in 1..b |->
                  IF j <= i THEN mine[j]
                  ELSE IF j = i + 1 /\ sub = 2 THEN Mv(built[j])
                  ELSE built[j]]
       ELSE LET k == f - pairSteps
            IN IF b > a
               THEN [j \in 1..b |->
                       IF j <= min_sz THEN mine[j]
                       ELSE IF j <= min_sz + k THEN Mv(built[j])
                       ELSE built[j]]
               ELSE SubSeq(mine, 1, min_sz)

(* ---------------- element access ---------------- *)
\* (mutant) at() without the check of the index
at_unchecked(c0, pos) ==
    LET c == recover_if_valueless_(c0)
    IN [Done(c) EXCEPT !.ret = IF pos < size(c) THEN c.elems[pos + 1] ELSE MovedFrom]

\* at(pos): recover_if_valueless_(); throws std::out_of_range when
\* pos >= size(), else returns data()[pos]. ret is the value referred to.
at(c0, pos) ==
    LET c == recover_if_valueless_(c0)
    IN IF pos >= size(c) THEN Thrown(c, TRUE)
       ELSE [Done(c) EXCEPT !.ret = c.elems[pos + 1]]

\* operator[](pos), noexcept: recover_if_valueless_(); data()[pos]. The index
\* is only asserted: with pos >= size() (a precondition violation) a build
\* without assertions reads whatever lies at that address (garbage).
subscript(c0, pos, garbage) ==
    LET c == recover_if_valueless_(c0)
    IN [Done(c) EXCEPT !.ret = IF pos < size(c) THEN c.elems[pos + 1] ELSE garbage]

\* front() is data()[0] and back() is data()[size() - 1], both noexcept and
\* only asserted to be called on a non-empty container
front(c0, garbage) == subscript(c0, 0, garbage)
back(c0, garbage) ==
    LET c == recover_if_valueless_(c0)
    IN [Done(c) EXCEPT !.ret = IF size(c) > 0 THEN c.elems[size(c)] ELSE garbage]

(* ---------------- pop_back / clear ---------------- *)
\* (mutant) a heap container that fits the inline buffer again moves back
pop_back_moves_back(c0) ==
    LET c == recover_if_valueless_(c0)
        rest == SubSeq(c.elems, 1, Len(c.elems) - 1)
    IN Done(IF Len(rest) <= N THEN InlineOf(rest) ELSE [c EXCEPT !.elems = rest])

pop_back(c0) ==
    LET c == recover_if_valueless_(c0)
    IN Done([c EXCEPT !.elems = SubSeq(c.elems, 1, Len(c.elems) - 1)])

\* (mutant) clear gives the heap vector back
clear_releases(c0) == Done(EmptyInline)

clear(c0) ==
    LET c == recover_if_valueless_(c0)
    IN Done([c EXCEPT !.elems = << >>])

(* ---------------- operator=(InlinedVector&&) ---------------- *)
\* Move assignment from another container, with std::allocator (the
\* allocator propagates): clear(); storage_ = std::move(other.storage_).
\* other on the heap: its vector is taken over. other inline and this inline:
\* InlineBuf::operator=(InlineBuf&&) builds InlineBuf temp_buf from other
\* (steps 0..m-1) and swaps it in (steps m..2m-1). other inline and this on
\* the heap: the variant destroys the (cleared) vector and move constructs the
\* InlineBuf alternative from other (steps 0..m-1); when that throws the
\* variant is left valueless. other valueless: the variant assignment leaves
\* this valueless as well, without an exception.
move_assign(c0, other, f) ==
    LET c == clear(c0).c
        m == Len(other.elems)
    IN IF is_valueless_(other)
       THEN IF f = NoFail THEN Done(ValuelessStorage) ELSE Thrown(c, FALSE)
       ELSE IF other.st = "Heap"
       THEN IF f = NoFail THEN Done(other) ELSE Thrown(c, FALSE)
       ELSE IF f = NoFail THEN Done(InlineOf(other.elems))
       ELSE IF c.st = "Inline"
       THEN IF f < m THEN Thrown(c, f >= 0 /\ MoveCtorThrows)
            ELSE Thrown(c, InlineBuf_swap(<< >>, other.elems, f - m).valid)
       ELSE Thrown(ValuelessStorage, f >= 0 /\ f < m /\ MoveCtorThrows)

(* ---------------- InlinedVector(const InlinedVector&) ---------------- *)
\* (mutant) a copy of a heap container that takes over the pointer of the
\* source instead of copying the elements
copy_construct_shallow(other, f) ==
    [c |-> IF size(other) = 0 THEN EmptyInline ELSE other, ok |-> TRUE, valid |-> f = NoFail,
     shares |-> other.st = "Heap" /\ size(other) > 0]

\* n = other.size(). n == 0: empty. n <= N: the elements are copy constructed
\* into the InlineBuf of the new object (steps 0..n-1). n > N: HeapVec vec,
\* vec.reserve(n) (step 0), vec.emplace_back(s[i]) (steps 1..n). The new
\* object owns its storage in every case. A throw leaves no object.
copy_construct(other, f) ==
    LET n == size(other)
        None(valid) == [c |-> Absent, ok |-> FALSE, valid |-> valid, shares |-> FALSE]
        Made(c) == [c |-> c, ok |-> TRUE, valid |-> TRUE, shares |-> FALSE]
    IN IF n = 0 THEN (IF f = NoFail THEN Made(EmptyInline) ELSE None(FALSE))
       ELSE IF n <= N
       THEN IF f = NoFail THEN Made(InlineOf(other.elems))
            ELSE None(f >= 0 /\ f < n /\ CopyCtorThrows)
       ELSE IF f = NoFail THEN Made(HeapOf(other.elems, n))
            ELSE None(f = 0 \/ (f >= 1 /\ f <= n /\ CopyCtorThrows))

(* ---------------- swap ---------------- *)
\* (mutant) the mixed case hands the heap vector over and drops the inline
\* elements
swap_mixed_drops(c0, other0, f) ==
    LET c == recover_if_valueless_(c0)
        o == recover_if_valueless_(other0)
    IN IF f # NoFail THEN [c |-> c, o |-> o, ok |-> FALSE, valid |-> FALSE]
       ELSE IF c.st = o.st THEN [c |-> o, o |-> c, ok |-> TRUE, valid |-> TRUE]
       ELSE IF c.st = "Inline" THEN [c |-> o, o |-> EmptyInline, ok |-> TRUE, valid |-> TRUE]
       ELSE [c |-> EmptyInline, o |-> c, ok |-> TRUE, valid |-> TRUE]

\* (mutant) a swap that hands the elements over in a buffer made to fit
swap_fits(c0, other0, f) ==
    LET c == recover_if_valueless_(c0)
        o == recover_if_valueless_(other0)
    IN [c |-> o, o |-> IF c.st = "Heap" THEN HeapOf(c.elems, Len(c.elems)) ELSE c,
        ok |-> TRUE, valid |-> f = NoFail]

\* a.swap(other), with an allocator that is always equal. o is the other
\* container after the call. Both Inline: InlineBuf::swap. Both Heap:
\* std::vector::swap. Mixed: std::variant::swap, which moves the alternative
\* of other into a temporary, move-assigns *this to other and emplaces the
\* temporary into *this; m being the size of the inline side, the InlineBuf
\* move constructor runs once (steps 0..m-1) when *this is Inline and twice
\* (steps 0..m-1 into the temporary, steps m..2m-1 into *this) when other is.
\* A throw while a variant is being emplaced leaves it valueless.
swap(c0, other0, f) ==
    LET c == recover_if_valueless_(c0)
        o == recover_if_valueless_(other0)
        Ok(x, y) == [c |-> x, o |-> y, ok |-> TRUE, valid |-> TRUE]
        Fail(x, y, valid) == [c |-> x, o |-> y, ok |-> FALSE, valid |-> valid]
    IN IF c.st = "Inline" /\ o.st = "Inline"
       THEN IF f = NoFail THEN Ok(o, c)
            ELSE LET sw == InlineBuf_swap(c.elems, o.elems, f)
                 IN Fail(InlineOf(sw.elems),
                         InlineOf(InlineBuf_swap_other(c.elems, o.elems, f)),
                         f >= 0 /\ sw.valid)
       ELSE IF c.st = "Heap" /\ o.st = "Heap"
       THEN IF f = NoFail THEN Ok(o, c) ELSE Fail(c, o, FALSE)
       ELSE IF f = NoFail THEN Ok(o, c)
       ELSE IF c.st = "Inline"
       THEN Fail(InlineOf(MovedOut(c.elems, 1..f)), ValuelessStorage,
                 f >= 0 /\ f < Len(c.elems) /\ MoveCtorThrows)
       ELSE LET m == Len(o.elems)
            IN IF f < m
               THEN Fail(c, InlineOf(MovedOut(o.elems, 1..f)), f >= 0 /\ MoveCtorThrows)
               ELSE Fail(ValuelessStorage, c, f < 2 * m /\ MoveCtorThrows)

\* a.swap(a). Inline: InlineBuf::swap with itself, std::swap(p[i], p[i]) for
\* every element: T t(std::move(p[i])) (step 3i), p[i] = std::move(p[i])
\* (step 3i+1), p[i] = std::move(t) (step 3i+2). Heap: std::vector::swap with
\* itself.
self_swap(c0, f) ==
    LET c == recover_if_valueless_(c0)
        i == f \div 3
    IN IF f = NoFail THEN Done(c)
       ELSE IF c.st = "Heap" THEN Thrown(c, FALSE)
       ELSE Thrown(InlineOf(IF f % 3 = 0 THEN c.elems ELSE MovedOut(c.elems, {i + 1})),
                   /\ f >= 0 /\ f < 3 * Len(c.elems)
                   /\ IF f % 3 = 0 THEN MoveCtorThrows ELSE MoveAsgThrows)

(* ---------------- assignment and swap with allocators ---------------- *)
\* The calls below take the container c0 with the allocator of its heap
\* vector va0 and its own allocator own, and the other container with its
\* allocator oa (which is also the allocator of its heap vector). They yield
\*   c, va, a - the container, the allocator of its heap vector and alloc_
\*   o, oa    - the other container and its alloc_
\*   stolen   - the heap buffer of the other container (or of the vector
\*              built for it) was taken over as it is
AllocResult(c, va, a, o, oa, stolen, ok, valid) ==
    [c |-> c, va |-> va, a |-> a, o |-> o, oa |-> oa, stolen |-> stolen, ok |-> ok,
     valid |-> valid]

\* the allocator of the heap vector of container c, held by a container whose
\* allocator is a
VecAllocOf(c, a) == IF c.st = "Heap" THEN a ELSE NoAlloc

\* storage_ = std::move(vec) in container c (heap vector allocator va), vec
\* holding elems with capacity k and allocator x. storage_ holds a vector:
\* std::vector's move assignment, which takes the buffer when the allocator
\* propagates on move assignment or equals its own, and else keeps its buffer
\* and allocator and moves the elements in one by one (growing to the size
\* needed). storage_ holds the InlineBuf: the vector alternative is move
\* constructed from vec.
storage_assign_vec(c, va, elems, k, x) ==
    IF c.st = "Heap" /\ ~Alloc.pocma /\ va # x
    THEN [c |-> HeapOf(elems, Max(c.cap, Len(elems))), va |-> va, elementwise |-> TRUE]
    ELSE [c |-> HeapOf(elems, k), va |-> x, elementwise |-> FALSE]

\* (mutant) a copy assignment that leaves the container as it was when a
\* copy throws
copy_assign_keeps_on_failure(c0, va0, own, other, oa, f) ==
    LET n == size(other)
        c == IF n = 0 THEN EmptyInline
             ELSE IF n <= N THEN InlineOf(other.elems) ELSE HeapOf(other.elems, n)
    IN IF f = NoFail
       THEN AllocResult(c, VecAllocOf(c, own), own, other, oa, FALSE, TRUE, TRUE)
       ELSE AllocResult(c0, va0, own, other, oa, FALSE, FALSE,
                        f >= 0 /\ f <= n /\ CopyCtorThrows)

\* (mutant) copy assignment that never takes the allocator of the source
copy_assign_keeps_alloc(c0, va0, own, other, oa, f) ==
    LET n == size(other)
        c == IF n = 0 THEN EmptyInline
             ELSE IF n <= N THEN InlineOf(other.elems) ELSE HeapOf(other.elems, n)
    IN AllocResult(c, VecAllocOf(c, own), own, other, oa, FALSE, TRUE, f = NoFail)

\* operator=(const InlinedVector& other), this != &other. The allocator is
\* taken over first when it propagates; clear(); n == 0: emplace<InlineBuf>.
\* n <= N: emplace<InlineBuf>, the elements are copy constructed (steps
\* 0..n-1; on a throw the buffer stays empty). n > N: HeapVec vec(alloc_),
\* vec.reserve(n) (step 0), vec.emplace_back(s[i]) (steps 1..n),
\* storage_ = std::move(vec) (steps n+1..2n when the vector moves element by
\* element); on a throw the container stays cleared.
copy_assign(c0, va0, own, other, oa, f) ==
    LET a == IF Alloc.pocca THEN oa ELSE own
        c == clear(c0).c
        va == VecAllocOf(c, va0)
        n == size(other)
        Ok(x, xva) == AllocResult(x, xva, a, other, oa, FALSE, TRUE, TRUE)
        Fail(x, xva, valid) == AllocResult(x, xva, a, other, oa, FALSE, FALSE, valid)
    IN IF n = 0
       THEN IF f = NoFail THEN Ok(EmptyInline, NoAlloc) ELSE Fail(c, va, FALSE)
       ELSE IF n <= N
       THEN IF f = NoFail THEN Ok(InlineOf(other.elems), NoAlloc)
            ELSE Fail(EmptyInline, NoAlloc, f >= 0 /\ f < n /\ CopyCtorThrows)
       ELSE LET av == storage_assign_vec(c, va, other.elems, n, a)
            IN IF f = NoFail THEN Ok(av.c, av.va)
               ELSE IF f = 0 THEN Fail(c, va, TRUE)
               ELSE IF f <= n THEN Fail(c, va, CopyCtorThrows)
               ELSE Fail(c, va, f <= 2 * n /\ av.elementwise /\ MoveCtorThrows)

\* operator=(InlinedVector&& other), this != &other.
\* The allocator propagates, is always equal, or equals other's: clear();
\* (alloc_ = std::move(other.alloc_);) storage_ = std::move(other.storage_);
\* other.storage_.emplace<InlineBuf>(). Both on the heap, this is
\* std::vector's move assignment: element by element when the allocator does
\* not propagate and the two vectors' allocators differ (step 0: the
\* allocation when the capacity does not suffice, steps 1..m: the moves).
\* Otherwise element-wise: clear(); n == 0: other.clear(). n <= N:
\* emplace<InlineBuf>, construct_at_(d + i, std::move(other[i])) (steps
\* 0..n-1), other.clear(). n > N: HeapVec vec(alloc_), vec.reserve(n) (step 0),
\* vec.emplace_back(std::move(other[i])) (steps 1..n),
\* storage_ = std::move(vec) (steps n+1..2n when element by element),
\* other.clear().
move_assign_alloc(c0, va0, own, other, oa, f) ==
    LET c == clear(c0).c
        va == VecAllocOf(c, va0)
        ova == VecAllocOf(other, oa)
        m == size(other)
        \* other after the first k of its elements were moved from
        Left(k) == [other EXCEPT !.elems = MovedOut(other.elems, 1..k)]
    IN IF Alloc.pocma \/ Alloc.isAE \/ own = oa
       THEN LET a == IF Alloc.pocma THEN oa ELSE own
            IN IF other.st = "Heap" /\ storage_assign_vec(c, va, other.elems, m, ova).elementwise
               THEN IF f = NoFail
                    THEN AllocResult(HeapOf(other.elems, Max(c.cap, m)), va, a, EmptyInline, oa,
                                     FALSE, TRUE, TRUE)
                    ELSE IF f = 0 THEN AllocResult(c, va, a, other, oa, FALSE, FALSE, m > c.cap)
                    ELSE AllocResult(c, va, a, Left(f - 1), oa, FALSE, FALSE,
                                     f <= m /\ MoveCtorThrows)
               ELSE LET r == move_assign(c0, other, f)
                    IN AllocResult(r.c, VecAllocOf(r.c, IF r.ok THEN ova ELSE va0), a,
                                   IF r.ok THEN EmptyInline
                                   ELSE IF other.st # "Inline" THEN other
                                   ELSE IF f < m THEN Left(Max(f, 0)) ELSE EmptyInline,
                                   oa, r.ok /\ other.st = "Heap", r.ok, r.valid)
       ELSE IF m = 0
       THEN AllocResult(c, va, own, IF f = NoFail THEN clear(other).c ELSE other, oa, FALSE,
                        f = NoFail, f = NoFail)
       ELSE IF m <= N
       THEN IF f = NoFail
            THEN AllocResult(InlineOf(other.elems), NoAlloc, own, clear(other).c, oa, FALSE,
                             TRUE, TRUE)
            ELSE AllocResult(EmptyInline, NoAlloc, own, Left(Max(f, 0)), oa, FALSE, FALSE,
                             f >= 0 /\ f < m /\ MoveCtorThrows)
       ELSE LET av == storage_assign_vec(c, va, other.elems, m, own)
            IN IF f = NoFail
               THEN AllocResult(av.c, av.va, own, clear(other).c, oa, FALSE, TRUE, TRUE)
               ELSE IF f = 0 THEN AllocResult(c, va, own, other, oa, FALSE, FALSE, TRUE)
               ELSE IF f <= m
               THEN AllocResult(c, va, own, Left(f - 1), oa, FALSE, FALSE, MoveCtorThrows)
               ELSE AllocResult(c, va, own, Left(m), oa, FALSE, FALSE,
                                f <= 2 * m /\ av.elementwise /\ MoveCtorThrows)

\* (mutant) the move constructor leaves its source as it was
move_construct_keeps_source(c0, va0, own, f) ==
    AllocResult(c0, va0, own, c0, own, FALSE, TRUE, f = NoFail /\ ~is_valueless_(c0))

\* InlinedVector(InlinedVector&& other): c0, va0, own are other's; the result
\* has the new container as o and its allocator as oa, and other as c, va, a.
\* alloc_(std::move(other.alloc_)), storage_ the empty InlineBuf. other
\* reports is_inline(): std::get<InlineBuf>(other.storage_), which throws
\* std::bad_variant_access when other is valueless (std::terminate when the
\* constructor is noexcept); the elements are move constructed one by one
\* (steps 0..m-1) and other's buffer is cleared. other on the heap:
\* storage_ = std::move(other.storage_) takes its vector over, and other is
\* given an empty InlineBuf.
move_construct(c0, va0, own, f) ==
    LET m == Len(c0.elems)
    IN IF is_valueless_(c0)
       THEN AllocResult(c0, va0, own, Absent, NoAlloc, FALSE, FALSE,
                        f = NoFail /\ ~T.nxMoveCtor)
       ELSE IF f = NoFail
       THEN AllocResult(EmptyInline, NoAlloc, own, c0, own, c0.st = "Heap", TRUE, TRUE)
       ELSE AllocResult([c0 EXCEPT !.elems = MovedOut(c0.elems, 1..f)], va0, own, Absent,
                        NoAlloc, FALSE, FALSE,
                        c0.st = "Inline" /\ f >= 0 /\ f < m /\ MoveCtorThrows)

\* (mutant) swap that leaves the allocators where they are
swap_alloc_keeps(c0, va0, own, other, oa, f) ==
    LET r == swap(c0, other, f)
    IN AllocResult(r.c, VecAllocOf(r.c, own), own, r.o, oa, FALSE, r.ok, r.valid)

\* swap(InlinedVector& other): the allocators are exchanged when the
\* allocator propagates on swap (else they are asserted equal, and a build
\* without assertions goes on), then the storage is exchanged as in swap.
\* Both on the heap, std::vector::swap exchanges the buffers, and the
\* vectors' allocators when they propagate; in the mixed case the vector
\* changes sides with its allocator.
swap_alloc(c0, va0, own, other, oa, f) ==
    LET r == swap(c0, other, f)
        c == recover_if_valueless_(c0)
        va == VecAllocOf(c, va0)
        ova == VecAllocOf(other, oa)
        a == IF Alloc.pocs THEN oa ELSE own
        b == IF Alloc.pocs THEN own ELSE oa
    IN AllocResult(r.c,
                   IF r.c.st # "Heap" THEN NoAlloc
                   ELSE IF c.st = "Heap" /\ other.st = "Heap"
                        THEN (IF Alloc.pocs /\ r.ok THEN ova ELSE va)
                   ELSE IF c.st = "Heap" THEN va ELSE ova,
                   a, r.o, b, FALSE, r.ok, r.valid)

(* ---------------- insert ---------------- *)
\* (mutant) the argument is never taken for an element of the container
AliasCheck_never(c, src) == FALSE

\* the address of the argument lies in [ptr, ptr + size) of the active storage
AliasCheck(c, src) == src.ali >= 1 /\ src.ali <= Len(c.elems)

\* the in-place path (shift + assign) is compiled for T
InsertFastPath(src) ==
    IF src.rv THEN T.nxMoveAsg ELSE T.nxMoveAsg /\ T.copyAsg

\* the relocation of the inline rebuild: std::move_if_noexcept for an lvalue
\* argument, std::move for an rvalue argument
InsertSlowMoves(src) == IF src.rv THEN TRUE ELSE MoveIfNoexceptMoves

with_staged_src(c, idx, src, f) ==
    LET old_size == Len(c.elems)
        e == c.elems
    IN IF c.st = "Inline"
       THEN IF old_size < N
            THEN IF idx = old_size
                 THEN \* append: step 0 constructs the element
                      IF f = NoFail
                      THEN [Done(InlineOf(Append(AfterSrcUsed(e, src), SrcAt(e, src))))
                                EXCEPT !.ret = idx]
                      ELSE Thrown(c, f = 0 /\ SrcCtorThrows(src))
                 ELSE IF T.trivial
                 THEN \* memmove, then p[idx] = src (or memcpy)
                      LET shifted == InsertAt(e, idx, e[idx + 1])
                      IN IF f = NoFail
                         THEN [Done(InlineOf([shifted EXCEPT ![idx + 1] = SrcAt(shifted, src)]))
                                   EXCEPT !.ret = idx]
                         ELSE Thrown(c, FALSE)
                 ELSE IF InsertFastPath(src)
                 THEN \* step 0: construct_at_(p + old_size, std::move(p[old_size - 1]));
                      \* shift by move assignment; step 1: p[idx] = src
                      LET shifted == InsertAt(e, idx, Mv(e[idx + 1]))
                      IN IF f = NoFail
                         THEN [Done(InlineOf([AfterSrcUsed(shifted, src)
                                                EXCEPT ![idx + 1] = SrcAt(shifted, src)]))
                                   EXCEPT !.ret = idx]
                         ELSE IF f = 0 THEN Thrown(c, MoveCtorThrows)
                         ELSE Thrown(InlineOf(SubSeq(shifted, 1, old_size)),
                                     f = 1 /\ ~src.rv /\ CopyAsgThrows)
                 ELSE \* rebuild in InlineBuf tmp, then swap(tmp)
                      LET moves == InsertSlowMoves(src)
                          rb == RebuildInsert(e, idx, src, IF f > old_size THEN NoFail ELSE f, moves,
                                              IF moves THEN MoveCtorThrows ELSE CopyCtorThrows)
                          sw == InlineBuf_swap(rb.left, rb.built,
                                               IF f = NoFail THEN NoFail ELSE f - old_size - 1)
                      IN IF f = NoFail
                         THEN [Done(InlineOf(sw.elems)) EXCEPT !.ret = idx]
                         ELSE IF f <= old_size
                         THEN Thrown(InlineOf(rb.left), rb.valid)
                         ELSE Thrown(InlineOf(sw.elems), sw.valid)
            ELSE \* spill: step 0 is vec.reserve(new_cap), then the rebuild with std::move
                 LET rb == RebuildInsert(e, idx, src, IF f = NoFail THEN NoFail ELSE f - 1,
                                         TRUE, MoveCtorThrows)
                 IN IF f = NoFail
                    THEN [Done(HeapOf(rb.built, SpillCapacity(old_size))) EXCEPT !.ret = idx]
                    ELSE IF f = 0 THEN Thrown(c, TRUE)
                    ELSE Thrown(InlineOf(rb.left), rb.valid)
       ELSE \* heap: step 0 is new_vec.reserve(old_size + 1), then the rebuild with
            \* std::move_if_noexcept, then vec.swap(new_vec)
            LET rb == RebuildInsert(e, idx, src, IF f = NoFail THEN NoFail ELSE f - 1,
                                    MoveIfNoexceptMoves,
                                    IF MoveIfNoexceptMoves THEN MoveCtorThrows ELSE CopyCtorThrows)
            IN IF f = NoFail
               THEN [Done(HeapOf(rb.built, old_size + 1)) EXCEPT !.ret = idx]
               ELSE IF f = 0 THEN Thrown(c, TRUE)
               ELSE Thrown(HeapOf(rb.left, c.cap), rb.valid)

\* insert(pos, value), idx = pos - cbegin(). An argument that aliases an element
\* is first staged in a local (T s(value) / T s(std::move(value))): step 0.
insert(c0, idx, src, f) ==
    LET c == recover_if_valueless_(c0)
    IN IF AliasCheck(c, src)
       THEN IF f = 0 THEN Thrown(c, SrcCtorThrows(src))
            ELSE with_staged_src([c EXCEPT !.elems = AfterSrcUsed(c.elems, src)], idx,
                                 [rv |-> src.rv, ali |-> 0, val |-> c.elems[src.ali]],
                                 IF f = NoFail THEN NoFail ELSE f - 1)
       ELSE with_staged_src(c, idx, src, f)

\* insert(pos, value) performs element assignments: only inline with room and
\* pos before end(). Trivially copyable: p[idx] = src when T is copy
\* assignable (move assignable for T&&), memcpy otherwise. Fast path: the
\* shift and p[idx] = src. Rebuild path: InlineBuf::swap exchanges the
\* old_size common elements with std::swap, which move-assigns twice per
\* element. Append, spill and heap construct only.
insert_assigns(c0, idx, src) ==
    LET c == recover_if_valueless_(c0)
    IN /\ c.st = "Inline" /\ Len(c.elems) < N /\ idx < Len(c.elems)
       /\ IF T.trivial THEN (IF src.rv THEN T.moveAsg ELSE T.copyAsg) ELSE TRUE

(* ---------------- erase ---------------- *)
\* erase(first, last), start = first - cbegin(), cnt = last - first.
\* Inline: memmove (trivially copyable), shift by move assignment (nothrow
\* move-assignable), else rebuild in InlineBuf tmp with std::move (steps
\* 0..keep-1) and swap(tmp). Heap: step 0 is new_vec.reserve(keep), steps
\* 1..keep relocate with std::move_if_noexcept, then vec.swap(new_vec).
erase(c0, start, cnt, f) ==
    LET c == recover_if_valueless_(c0)
        e == c.elems
        old_size == Len(e)
        keep == old_size - cnt
    IN IF cnt = 0
       THEN IF f = NoFail THEN [Done(c) EXCEPT !.ret = start] ELSE Thrown(c, FALSE)
       ELSE IF c.st = "Inline"
       THEN IF T.trivial \/ T.nxMoveAsg
            THEN IF f = NoFail THEN [Done(InlineOf(RemoveRange(e, start, cnt))) EXCEPT !.ret = start]
                 ELSE Thrown(c, FALSE)
            ELSE LET rb == RebuildErase(e, start, cnt, IF f >= keep THEN NoFail ELSE f,
                                        TRUE, MoveCtorThrows)
                     sw == InlineBuf_swap(rb.left, rb.built,
                                          IF f = NoFail THEN NoFail ELSE f - keep)
                 IN IF f = NoFail THEN [Done(InlineOf(sw.elems)) EXCEPT !.ret = start]
                    ELSE IF f < keep THEN Thrown(InlineOf(rb.left), rb.valid)
                    ELSE Thrown(InlineOf(sw.elems), sw.valid)
       ELSE LET rb == RebuildErase(e, start, cnt, IF f = NoFail THEN NoFail ELSE f - 1,
                                   MoveIfNoexceptMoves,
                                   IF MoveIfNoexceptMoves THEN MoveCtorThrows ELSE CopyCtorThrows)
            IN IF f = NoFail THEN [Done(HeapOf(rb.built, keep)) EXCEPT !.ret = start]
               ELSE IF f = 0 THEN Thrown(c, keep > 0)
               ELSE Thrown(HeapOf(rb.left, c.cap), rb.valid)

\* erase(first, last) performs element assignments: only inline and not
\* trivially copyable. Fast path: p[i] = std::move(p[i + cnt]) for i in
\* [start, keep). Rebuild path: InlineBuf::swap exchanges the keep common
\* elements with std::swap. Heap constructs only.
erase_assigns(c0, start, cnt) ==
    LET c == recover_if_valueless_(c0)
        keep == Len(c.elems) - cnt
    IN /\ cnt > 0 /\ c.st = "Inline" /\ ~T.trivial
       /\ IF T.nxMoveAsg THEN start < keep ELSE keep > 0

\* emplace_back constructs the new element and, on a spill or a
\* reallocation, the relocated ones: no element assignment
emplace_back_assigns(c0) == FALSE

(* ---------------- the addresses of the elements ---------------- *)
\* insert(pos, value) leaves the elements in a buffer other than the one they
\* were in. Inline with room: every path works in the InlineBuf of storage_
\* (the rebuild path swaps tmp into it element by element). Inline and full:
\* the elements go to the heap vector. Heap: the elements go to new_vec, which
\* is allocated while vec is alive, whatever the spare capacity of vec.
insert_relocates(c0, idx, src) ==
    LET c == recover_if_valueless_(c0)
    IN IF c.st = "Inline" THEN Len(c.elems) >= N ELSE TRUE

\* erase(first, last) leaves the elements in another buffer. Inline: never.
\* Heap: the kept elements go to new_vec, unless cnt == 0 (early return).
erase_relocates(c0, start, cnt) ==
    LET c == recover_if_valueless_(c0)
    IN c.st = "Heap" /\ cnt > 0

(* ---------------- reserve ---------------- *)
\* the steps of reserve(new_cap) that can throw: an allocation and one
\* relocation per element when the capacity grows, none otherwise
ReserveSteps(c, new_cap) == IF new_cap <= capacity(c) THEN 0 ELSE 1 + Len(c.elems)

\* Inline and new_cap > N: step 0 is vec.reserve(new_cap), steps 1..count move the
\* elements with std::move, then storage_ = std::move(vec).
\* Heap: std::vector::reserve, step 0 allocates, steps 1..size relocate with
\* std::move_if_noexcept.
\* (mutant) the spill hands over the inline elements as the moves left them
reserve_keeps_moved_from(c0, new_cap, f) ==
    LET c == recover_if_valueless_(c0)
    IN IF new_cap <= capacity(c) THEN [Done(c) EXCEPT !.valid = (f = NoFail)]
       ELSE [Done(HeapOf(MovedOut(c.elems, 1..Len(c.elems)), new_cap))
                 EXCEPT !.valid = (f = NoFail)]

\* (mutant) a request above N on an inline container is ignored
reserve_within_inline(c0, new_cap, f) ==
    LET c == recover_if_valueless_(c0)
    IN IF new_cap <= capacity(c) \/ is_inline(c)
       THEN [Done(c) EXCEPT !.valid = (f = NoFail)]
       ELSE [Done(HeapOf(c.elems, new_cap)) EXCEPT !.valid = (f = NoFail)]

reserve(c0, new_cap, f) ==
    LET c == recover_if_valueless_(c0)
        e == c.elems
        count == Len(e)
    IN IF new_cap <= capacity(c)
       THEN IF f = NoFail THEN Done(c) ELSE Thrown(c, FALSE)
       ELSE IF f = NoFail THEN Done(HeapOf(e, new_cap))
       ELSE IF f = 0 THEN Thrown(c, TRUE)
       ELSE IF is_inline(c)
       THEN Thrown(InlineOf(MovedOut(e, 1..(f - 1))), f <= count /\ MoveCtorThrows)
       ELSE Thrown(HeapOf(IF MoveIfNoexceptMoves THEN MovedOut(e, 1..(f - 1)) ELSE e, c.cap),
                   f <= count /\ (IF MoveIfNoexceptMoves THEN MoveCtorThrows ELSE CopyCtorThrows))

(* ---------------- shrink_to_fit ---------------- *)
\* Heap with size <= N: steps 0..size-1 move the elements into InlineBuf
\* temp_buf with std::move; temp_buf.size = current_size; then
\* storage_ = std::move(temp_buf), which destroys the heap vector and move
\* constructs the InlineBuf alternative from temp_buf (steps size..2*size-1).
\* When that construction throws the variant is left valueless, the handler
\* destroys the current_size elements of temp_buf and temp_buf's destructor
\* destroys them again.
\* Heap with size > N: std::vector::shrink_to_fit (step 0: its allocation
\* fails, which the vector swallows).
\* (mutant) a vector with size <= N is shrunk in place
shrink_to_fit_in_place(c0, f) ==
    LET c == recover_if_valueless_(c0)
    IN IF is_inline(c) THEN [Done(c) EXCEPT !.valid = (f = NoFail)]
       ELSE [Done(HeapOf(c.elems, Len(c.elems))) EXCEPT !.valid = (f = NoFail)]

shrink_to_fit(c0, f) ==
    LET c == recover_if_valueless_(c0)
        e == c.elems
        current_size == Len(e)
    IN IF is_inline(c)
       THEN IF f = NoFail THEN Done(c) ELSE Thrown(c, FALSE)
       ELSE IF current_size <= N
       THEN IF f = NoFail THEN Done(InlineOf(e))
            ELSE IF f < current_size
            THEN Thrown(HeapOf(MovedOut(e, 1..f), c.cap), f >= 0 /\ MoveCtorThrows)
            ELSE [Thrown(ValuelessStorage, f < 2 * current_size /\ MoveCtorThrows)
                      EXCEPT !.dl = -current_size]
       ELSE IF f = NoFail THEN Done(HeapOf(e, current_size))
            ELSE [Done(c) EXCEPT !.valid = (f = 0)]

(* ---------------- resize ---------------- *)
\* resize(count) (x = the value-initialised element, constructed by the
\* default constructor) and resize(count, value) (constructed by the copy
\* constructor); ctorThrows: that constructor may throw.
\* Shrinking is erase(begin() + count, end()). Growing is reserve(count) (its
\* steps first) and then, Inline, one construct_at_ per added element with
\* buf->size set after the loop; Heap, std::vector::resize.
\* (mutant) every element of the resized container is the new value
resize_refills(c0, count, x, ctorThrows, f) ==
    LET c == recover_if_valueless_(c0)
        filled == [i \in 1..count |-> x]
    IN [Done(IF is_inline(c) /\ count <= N THEN InlineOf(filled)
             ELSE HeapOf(filled, Max(count, capacity(c))))
            EXCEPT !.valid = (f = NoFail)]

resize(c0, count, x, ctorThrows, f) ==
    LET c == recover_if_valueless_(c0)
        current == Len(c.elems)
        rs == ReserveSteps(c, count)
    IN IF count < current THEN erase(c, count, current - count, f)
       ELSE IF count = current
       THEN IF f = NoFail THEN Done(c) ELSE Thrown(c, FALSE)
       ELSE IF f # NoFail /\ f < rs THEN reserve(c, count, f)
       ELSE LET r == reserve(c, count, NoFail).c
                grown == r.elems \o [i \in 1..(count - current) |-> x]
                k == f - rs
            IN IF f = NoFail THEN Done([r EXCEPT !.elems = grown])
               ELSE IF r.st = "Inline"
               THEN \* the k elements constructed before the throw are never destroyed
                    [Thrown(r, k < count - current /\ ctorThrows) EXCEPT !.dl = k]
               ELSE Thrown(r, k < count - current /\ ctorThrows)

\* resize(count, value) with value a reference to the element at index ali of
\* the container: the value that the constructions of the new elements read.
\* reserve(count) comes first; when it moves the elements to another buffer
\* (Inline to Heap, or a reallocation of the heap vector) the InlineBuf is
\* destroyed or the old buffer freed and the reference dangles: the read
\* yields whatever that memory holds by then. Without a new buffer the
\* element is where it was (std::vector::resize copies value before it
\* touches its elements).
resize_reads(c0, count, ali, garbage) ==
    LET c == recover_if_valueless_(c0)
    IN IF count > Len(c.elems) /\ ReserveSteps(c, count) > 0 THEN garbage ELSE c.elems[ali]

(* ---------------- comparison operators ---------------- *)
\* std::equal(first1, last1, first2) from position i on: the elements of s
\* are compared with those of t at the same positions, up to the end of s
RECURSIVE std_equal(_, _, _)
std_equal(s, t, i) ==
    IF i > Len(s) THEN TRUE
    ELSE IF s[i] # t[i] THEN FALSE
    ELSE std_equal(s, t, i + 1)

\* (mutant) a proper prefix is not less than the longer sequence
RECURSIVE lexicographical_compare_no_prefix(_, _, _)
lexicographical_compare_no_prefix(s, t, i) ==
    IF i > Len(s) \/ i > Len(t) THEN FALSE
    ELSE IF s[i] < t[i] THEN TRUE
    ELSE IF t[i] < s[i] THEN FALSE
    ELSE lexicographical_compare_no_prefix(s, t, i + 1)

\* std::lexicographical_compare(first1, last1, first2, last2) from position i
\* on: for (; first1 != last1 && first2 != last2; ++first1, ++first2)
\* { if (*first1 < *first2) return true; if (*first2 < *first1) return false; }
\* return first1 == last1 && first2 != last2;
RECURSIVE lexicographical_compare(_, _, _)
lexicographical_compare(s, t, i) ==
    IF i > Len(s) \/ i > Len(t) THEN i > Len(s) /\ i <= Len(t)
    ELSE IF s[i] < t[i] THEN TRUE
    ELSE IF t[i] < s[i] THEN FALSE
    ELSE lexicographical_compare(s, t, i + 1)

\* operator==, !=, <, <=, >, >= of (lhs, rhs). [begin(), end()) of a const
\* container is its elements; data() is the sentinel and size() is 0 for a
\* valueless one.
comparison_operators(lhs, rhs) ==
    LET range(c) == IF is_valueless_(c) THEN << >> ELSE c.elems
        operator_eq(a, b) == size(a) = size(b) /\ std_equal(range(a), range(b), 1)
        operator_lt(a, b) == lexicographical_compare(range(a), range(b), 1)
    IN [eq |-> operator_eq(lhs, rhs),
        ne |-> ~operator_eq(lhs, rhs),
        lt |-> operator_lt(lhs, rhs),
        le |-> ~operator_lt(rhs, lhs),
        gt |-> operator_lt(rhs, lhs),
        ge |-> ~operator_lt(lhs, rhs)]

(* ---------------- the state machine ---------------- *)
\* ~InlinedVector() { clear(); }: afterwards the container no longer exists
Destroyed == [st |-> "Destroyed", elems |-> << >>, cap |-> 0]

NoSrc == [rv |-> FALSE, ali |-> 0, val |-> MovedFrom]

\* last: the call that has just returned (op = "none": the caller has moved on)
\*   pre - the container when the call was made; ok - FALSE when the call
\*   ended by an exception; src, idx, cnt, f - its arguments and failing step;
\*   ret - the index of the returned iterator; plive - live when the call was
\*   made; other - the other container of a move assignment or swap when the
\*   call was made, oafter - that container when the call returned
\* pushed: the values passed to push_back so far (SpecPush)
\*   alloc, vec - alloc_ and vec_alloc when the call was made; other_alloc,
\*   oafter_alloc - the allocator of the other container before and after;
\*   stolen - the heap buffer of the other container was taken over
\*   cmp - what the six comparison operators returned for (v, other)
NoCall == [op |-> "none", ok |-> TRUE, pre |-> EmptyInline, plive |-> 0, src |-> NoSrc,
           idx |-> 0, cnt |-> 0, f |-> NoFail, ret |-> 0, other |-> EmptyInline,
           oafter |-> EmptyInline, alloc |-> NoAlloc, vec |-> NoAlloc,
           other_alloc |-> NoAlloc, oafter_alloc |-> NoAlloc, stolen |-> FALSE,
           cmp |-> [eq |-> FALSE, ne |-> FALSE, lt |-> FALSE, le |-> FALSE, gt |-> FALSE,
                    ge |-> FALSE]]

\* w: a second container, copy constructed from v (SpecCopy); w.c is the
\* container, w.shares says that it uses the element storage of v
NoCopy == [c |-> Absent, shares |-> FALSE]

\* Alloc: the allocator type; alloc_: the allocator of the container
\* (get_allocator()); vec_alloc: the allocator its heap vector holds, NoAlloc
\* without a heap vector (SpecPropagation). With std::allocator every
\* instance equals every other and nothing depends on them.
InitStdAllocator ==
    /\ Alloc = StdAllocator
    /\ alloc_ = NoAlloc
    /\ vec_alloc = NoAlloc

\* live: element constructions minus element destructions so far
\* alloc_net: calls of the allocator's construct minus calls of its destroy so
\* far (SpecAlloc)
Init ==
    /\ T \in ElementTypes
    /\ v = EmptyInline
    /\ live = 0
    /\ last = NoCall
    /\ pushed = << >>
    /\ alloc_net = 0
    /\ w = NoCopy
    /\ InitStdAllocator

Fails == NoFail..(4 * MaxSize + 2)

Abs(x) == IF x < 0 THEN -x ELSE x

\* the caller is between two calls and the container exists
Idle == last.op = "none" /\ v.st # "Destroyed"

\* the call op(args) on v, with outcome r, returns to the caller
Returned(op, src, idx, cnt, f, r) ==
    /\ r.valid
    /\ Abs(live - Len(v.elems) + r.dl) <= MaxImbalance
    /\ v' = r.c
    /\ live' = live + (Len(r.c.elems) - Len(v.elems)) + r.dl
    /\ last' = [NoCall EXCEPT !.op = op, !.ok = r.ok, !.pre = v, !.plive = live, !.src = src,
                              !.idx = idx, !.cnt = cnt, !.f = f, !.ret = r.ret]
    /\ UNCHANGED <<T, Alloc, alloc_, vec_alloc>>

Return(op, src, idx, cnt, f, r) ==
    /\ Returned(op, src, idx, cnt, f, r)
    /\ UNCHANGED <<pushed, alloc_net, w>>

EmplaceBack ==
    /\ Idle
    /\ \E src \in Srcs(v), f \in Fails :
        /\ size(v) < MaxSize
        /\ Return("emplace_back", src, 0, 0, f, emplace_back(v, src, f))

Insert ==
    /\ Idle
    /\ \E src \in Srcs(v), idx \in 0..size(v), f \in Fails :
        /\ size(v) < MaxSize
        /\ Return("insert", src, idx, 0, f, insert(v, idx, src, f))

Erase ==
    /\ Idle
    /\ \E start \in 0..size(v), f \in Fails :
        \E cnt \in 0..(size(v) - start) :
            Return("erase", NoSrc, start, cnt, f, erase(v, start, cnt, f))

PopBack ==
    /\ Idle
    /\ ~empty(v)
    /\ Return("pop_back", NoSrc, 0, 0, NoFail, pop_back(v))

Clear ==
    /\ Idle
    /\ Return("clear", NoSrc, 0, 0, NoFail, clear(v))

Reserve ==
    /\ Idle
    /\ \E new_cap \in 0..MaxCap, f \in Fails :
        Return("reserve", NoSrc, 0, new_cap, f, reserve(v, new_cap, f))

ShrinkToFit ==
    /\ Idle
    /\ \E f \in Fails : Return("shrink_to_fit", NoSrc, 0, 0, f, shrink_to_fit(v, f))

Resize ==
    /\ Idle
    /\ \E count \in 0..MaxSize, f \in Fails :
        Return("resize", NoSrc, 0, count, f, resize(v, count, DefaultValue, DefaultCtorThrows, f))

ResizeValue ==
    /\ Idle
    /\ \E count \in 0..MaxSize, x \in Values, f \in Fails :
        /\ T.copyCtor
        /\ Return("resize_value", [rv |-> FALSE, ali |-> 0, val |-> x], 0, count, f,
                  resize(v, count, x, CopyCtorThrows, f))

\* what an access outside [0, size()) can read
Garbage == Values \cup {MovedFrom}

At ==
    /\ Idle
    /\ \E pos \in 0..MaxSize : Return("at", NoSrc, pos, 0, NoFail, at(v, pos))

Subscript ==
    /\ Idle
    /\ \E pos \in 0..MaxSize, g \in Garbage :
        Return("subscript", NoSrc, pos, 0, NoFail, subscript(v, pos, g))

Front ==
    /\ Idle
    /\ \E g \in Garbage : Return("front", NoSrc, 0, 0, NoFail, front(v, g))

Back ==
    /\ Idle
    /\ \E g \in Garbage : Return("back", NoSrc, 0, 0, NoFail, back(v, g))

\* the states of the other container of a move assignment or of a swap
SeqsUpTo(n) == UNION {[1..k -> Values] : k \in 0..n}
Others == {InlineOf(s) : s \in SeqsUpTo(N)}
              \cup {HeapOf(s, Len(s)) : s \in SeqsUpTo(MaxSize) \ {<< >>}}
              \cup {ValuelessStorage}
\* the ones a call is given: neighbouring elements differ, so an element that
\* is moved to the wrong place, twice or not at all shows in the result
OtherSamples ==
    {c \in Others : \A i \in 1..(Len(c.elems) - 1) : c.elems[i] # c.elems[i + 1]}

\* std::swap(T&, T&) exists: T is move constructible and move assignable
Swappable == T.moveAsg

Swap ==
    /\ Idle
    /\ Swappable
    /\ \E other \in OtherSamples, f \in Fails :
        LET r == swap(v, other, f)
        IN /\ r.valid
           /\ v' = r.c
           /\ live' = live + (Len(r.c.elems) - Len(v.elems))
           /\ last' = [NoCall EXCEPT !.op = "swap", !.ok = r.ok, !.pre = v, !.plive = live,
                                     !.f = f, !.other = other, !.oafter = r.o]
           /\ UNCHANGED <<T, pushed, alloc_net, w, Alloc, alloc_, vec_alloc>>

SelfSwap ==
    /\ Idle
    /\ Swappable
    /\ \E f \in Fails : Return("self_swap", NoSrc, 0, 0, f, self_swap(v, f))

MoveAssign ==
    /\ Idle
    /\ \E other \in OtherSamples, f \in Fails :
        LET r == move_assign(v, other, f)
        IN /\ r.valid
           /\ v' = r.c
           /\ live' = live + (Len(r.c.elems) - Len(v.elems))
           /\ last' = [NoCall EXCEPT !.op = "move_assign", !.ok = r.ok, !.pre = v,
                                     !.plive = live, !.f = f, !.other = other]
           /\ UNCHANGED <<T, pushed, alloc_net, w, Alloc, alloc_, vec_alloc>>

Destructor ==
    /\ Idle
    /\ Return("destructor", NoSrc, 0, 0, NoFail, [clear(v) EXCEPT !.c = Destroyed])

\* the caller has looked at the outcome of the call and goes on
Resume ==
    /\ last.op # "none"
    /\ last' = NoCall
    /\ UNCHANGED <<T, v, live, pushed, alloc_net, w, Alloc, alloc_, vec_alloc>>

Next ==
    \/ EmplaceBack
    \/ Insert
    \/ Erase
    \/ PopBack
    \/ Clear
    \/ Reserve
    \/ ShrinkToFit
    \/ Resize
    \/ ResizeValue
    \/ At
    \/ Subscript
    \/ Front
    \/ Back
    \/ MoveAssign
    \/ Swap
    \/ SelfSwap
    \/ Destructor
    \/ Resume

Spec == Init /\ [][Next]_vars

\* A container filled by push_back alone: every call returns normally and
\* passes a value that is not an element of the container.
PushBack ==
    /\ Idle
    /\ size(v) < MaxSize
    /\ \E src \in Srcs(v) :
        /\ src.ali = 0
        /\ Returned("emplace_back", src, 0, 0, NoFail, emplace_back(v, src, NoFail))
        /\ pushed' = Append(pushed, src.val)
        /\ UNCHANGED <<alloc_net, w>>

NextPush == PushBack \/ Resume

SpecPush == Init /\ [][NextPush]_vars

(* ---------------- element types without assignment ---------------- *)
InitNonAssignable ==
    /\ T \in NonAssignableTypes
    /\ v = EmptyInline
    /\ live = 0
    /\ last = NoCall
    /\ pushed = << >>
    /\ alloc_net = 0
    /\ w = NoCopy
    /\ InitStdAllocator

NextNonAssignable ==
    \/ EmplaceBack
    \/ Insert
    \/ Erase
    \/ Resume

SpecNonAssignable == InitNonAssignable /\ [][NextNonAssignable]_vars

(* ---------------- assignment and swap between containers ---------------- *)
\* Containers with an allocator of any of the allocator types: a container
\* that is copy assigned, move assigned and swapped with other containers,
\* whose allocators are equal to its own or not.
\* the element types the containers of this specification are taken over
PropagationElementTypes == {TInt, TThrowingCopy, TThrowOnMoveCtor}

InitPropagation ==
    /\ T \in PropagationElementTypes
    /\ Alloc \in AllocatorTypes
    /\ alloc_ \in AllocIds
    /\ vec_alloc = NoAlloc
    /\ v = EmptyInline
    /\ live = 0
    /\ last = NoCall
    /\ pushed = << >>
    /\ alloc_net = 0
    /\ w = NoCopy

\* the call op(other) on v, other having the allocator oa, returns to the
\* caller with outcome r
ReturnedTwo(op, other, oa, f, r) ==
    /\ r.valid
    /\ v' = r.c
    /\ alloc_' = r.a
    /\ vec_alloc' = r.va
    /\ live' = live + (Len(r.c.elems) - Len(v.elems))
    /\ last' = [NoCall EXCEPT !.op = op, !.ok = r.ok, !.pre = v, !.plive = live, !.f = f,
                              !.other = other, !.oafter = r.o, !.alloc = alloc_,
                              !.vec = vec_alloc, !.other_alloc = oa, !.oafter_alloc = r.oa,
                              !.stolen = r.stolen]
    /\ UNCHANGED <<T, Alloc, pushed, alloc_net, w>>

CopyAssign ==
    /\ Idle
    /\ T.copyCtor
    /\ \E other \in OtherSamples, oa \in AllocIds, f \in Fails :
        ReturnedTwo("copy_assign", other, oa, f, copy_assign(v, vec_alloc, alloc_, other, oa, f))

\* a = a: if (this == &other) return *this;
SelfCopyAssign ==
    /\ Idle
    /\ T.copyCtor
    /\ last' = [NoCall EXCEPT !.op = "self_copy_assign", !.pre = v, !.plive = live,
                              !.other = v, !.oafter = v, !.alloc = alloc_, !.vec = vec_alloc,
                              !.other_alloc = alloc_, !.oafter_alloc = alloc_]
    /\ UNCHANGED <<T, v, live, Alloc, alloc_, vec_alloc, pushed, alloc_net, w>>

MoveAssignAlloc ==
    /\ Idle
    /\ \E other \in OtherSamples, oa \in AllocIds, f \in Fails :
        ReturnedTwo("move_assign", other, oa, f,
                    move_assign_alloc(v, vec_alloc, alloc_, other, oa, f))

SwapAlloc ==
    /\ Idle
    /\ Swappable
    /\ \E other \in OtherSamples, oa \in AllocIds, f \in Fails :
        ReturnedTwo("swap", other, oa, f, swap_alloc(v, vec_alloc, alloc_, other, oa, f))

\* InlinedVector y(std::move(v)): v is the source, the new container is
\* recorded as last.oafter
MoveConstruct ==
    /\ Idle
    /\ \E f \in Fails :
        ReturnedTwo("move_construct", Absent, NoAlloc, f,
                    move_construct(v, vec_alloc, alloc_, f))

NextPropagation ==
    \/ CopyAssign
    \/ MoveConstruct
    \/ SelfCopyAssign
    \/ MoveAssignAlloc
    \/ SwapAlloc
    \/ Resume

SpecPropagation == InitPropagation /\ [][NextPropagation]_vars

(* ---------------- erasing from the front until empty ---------------- *)
\* while (!vec.empty()) vec.erase(vec.begin()); on a non-empty container,
\* Inline or Heap (on the heap: as left by a spill, or with capacity == size
\* as left by a heap insert or erase). Every call returns normally.
NonEmptyContainers ==
    {c \in Others \cup {HeapOf(s, SpillCapacity(N)) : s \in SeqsUpTo(MaxSize)} : size(c) > 0}

InitEraseFront ==
    /\ T \in ElementTypes
    /\ v \in NonEmptyContainers
    /\ live = size(v)
    /\ last = NoCall
    /\ pushed = << >>
    /\ alloc_net = 0
    /\ w = NoCopy
    /\ InitStdAllocator

EraseFront ==
    /\ Idle
    /\ ~empty(v)
    /\ Return("erase", NoSrc, 0, 1, NoFail, erase(v, 0, 1, NoFail))

NextEraseFront == EraseFront \/ Resume

\* the loop goes on as long as its condition holds
SpecEraseFront ==
    InitEraseFront /\ [][NextEraseFront]_vars /\ WF_vars(EraseFront) /\ WF_vars(Resume)

(* ---------------- comparing two containers ---------------- *)
\* Containers of int, which has == and <. The container is filled, emptied
\* and given heap capacity, and between the calls it is compared with another
\* container, which is Inline, Heap with any capacity, or valueless.
ComparedContainers ==
    Others \cup {HeapOf(s, k) : s \in SeqsUpTo(MaxSize), k \in {MaxSize, MaxCap}}

InitCompare == Init /\ T = TInt

Compare ==
    /\ Idle
    /\ \E rhs \in ComparedContainers :
        last' = [NoCall EXCEPT !.op = "compare", !.pre = v, !.plive = live, !.other = rhs,
                                !.oafter = rhs,
                                !.cmp = comparison_operators(v, rhs)]
    /\ UNCHANGED <<T, v, live, pushed, alloc_net, w, Alloc, alloc_, vec_alloc>>

NextCompare ==
    \/ EmplaceBack
    \/ PopBack
    \/ Reserve
    \/ Compare
    \/ Resume

SpecCompare == InitCompare /\ [][NextCompare]_vars

(* ---------------- resize with an element of the container ---------------- *)
\* v.resize(count, v[i]): the container is filled and given capacity, and
\* resized with a reference to one of its elements as the value.
ResizeOwnElement ==
    /\ Idle
    /\ T.copyCtor
    /\ \E ali \in 1..size(v), count \in 0..MaxCap, garbage \in Garbage, f \in Fails :
        Return("resize_value", [rv |-> FALSE, ali |-> ali, val |-> v.elems[ali]], 0, count, f,
               resize(v, count, resize_reads(v, count, ali, garbage), CopyCtorThrows, f))

NextResize ==
    \/ EmplaceBack
    \/ Reserve
    \/ ResizeOwnElement
    \/ Resume

SpecResize == Init /\ [][NextResize]_vars

(* ---------------- a container and its copy ---------------- *)
\* InlinedVector w(v), then calls on either of the two. A call on one
\* container reaches the other one only through storage they share.
CopyConstruct ==
    /\ Idle
    /\ w = NoCopy
    /\ T.copyCtor
    /\ \E f \in Fails :
        LET r == copy_construct(v, f)
        IN /\ r.valid
           /\ w' = IF r.ok THEN [c |-> r.c, shares |-> r.shares] ELSE NoCopy
           /\ last' = [NoCall EXCEPT !.op = "copy_construct", !.ok = r.ok, !.pre = v,
                                     !.plive = live, !.f = f]
           /\ UNCHANGED <<T, v, live, pushed, alloc_net, Alloc, alloc_, vec_alloc>>

\* a call on the source with outcome r
OnSource(op, r) ==
    /\ Returned(op, NoSrc, 0, 0, NoFail, r)
    /\ w' = IF w.shares THEN [w EXCEPT !.c = r.c] ELSE w
    /\ UNCHANGED <<pushed, alloc_net>>

\* a call on the copy with outcome r
OnCopy(op, r) ==
    /\ Idle
    /\ w # NoCopy
    /\ w' = [w EXCEPT !.c = r.c]
    /\ v' = IF w.shares THEN r.c ELSE v
    /\ last' = [NoCall EXCEPT !.op = op, !.pre = v, !.plive = live, !.other = w.c,
                              !.oafter = r.c]
    /\ UNCHANGED <<T, live, pushed, alloc_net, Alloc, alloc_, vec_alloc>>

SourceEmplaceBack ==
    /\ Idle
    /\ size(v) < MaxSize
    /\ \E x \in Values :
        OnSource("emplace_back", emplace_back(v, [rv |-> TRUE, ali |-> 0, val |-> x], NoFail))

SourcePopBack ==
    /\ Idle
    /\ ~empty(v)
    /\ OnSource("pop_back", pop_back(v))

CopyEmplaceBack ==
    /\ size(w.c) < MaxSize
    /\ \E x \in Values :
        OnCopy("copy_emplace_back",
               emplace_back(w.c, [rv |-> TRUE, ali |-> 0, val |-> x], NoFail))

CopyPopBack ==
    /\ ~empty(w.c)
    /\ OnCopy("copy_pop_back", pop_back(w.c))

CopyClear ==
    /\ w # NoCopy
    /\ OnCopy("copy_clear", clear(w.c))

NextCopy ==
    \/ CopyConstruct
    \/ SourceEmplaceBack
    \/ SourcePopBack
    \/ CopyEmplaceBack
    \/ CopyPopBack
    \/ CopyClear
    \/ Resume

SpecCopy == Init /\ [][NextCopy]_vars

(* ---------------- the allocator's construct and destroy ---------------- *)
\* What a call that returns normally adds to alloc_net. construct_at_,
\* destroy_at_, destroy_n_ and the heap vector call AllocTraits::construct /
\* AllocTraits::destroy; InlineBuf's destructor, move constructor and clear()
\* call std::construct_at / std::destroy_n, which the allocator does not see.

\* inline with room: one construct_at_. Spill: old_size + 1 vec.emplace_back,
\* then storage_ = std::move(vec) destroys the InlineBuf alternative
\* (~InlineBuf). Heap: one construction, and a reallocation constructs and
\* destroys every old element.
alloc_emplace_back(c) ==
    IF is_inline(c) /\ size(c) = N THEN size(c) + 1 ELSE 1

\* both branches destroy one element through the allocator
alloc_pop_back(c) == -1

\* Inline: buf->clear() is InlineBuf::clear. Heap: std::vector::clear.
alloc_clear(c) == IF is_inline(c) THEN 0 ELSE -size(c)

\* Heap with size <= N: current_size construct_at_ into temp_buf, the variant
\* destroys the vector (current_size destroy calls), InlineBuf's move
\* constructor and other.clear() do the rest. Heap with size > N: the vector
\* relocates. Inline: nothing.
alloc_shrink_to_fit(c) ==
    IF is_inline(c) THEN 0
    ELSE IF size(c) <= N THEN size(c) - size(c)
    ELSE 0

\* the call op on v returns normally with outcome r, the allocator having
\* seen d more construct than destroy calls
ReturnedAlloc(op, r, d) ==
    /\ Abs(alloc_net + d) <= 2 * MaxSize
    /\ alloc_net' = alloc_net + d
    /\ Returned(op, NoSrc, 0, 0, NoFail, r)
    /\ UNCHANGED <<pushed, w>>

AllocEmplaceBack ==
    /\ Idle
    /\ size(v) < MaxSize
    /\ \E x \in Values :
        LET src == [rv |-> TRUE, ali |-> 0, val |-> x]
        IN ReturnedAlloc("emplace_back", emplace_back(v, src, NoFail), alloc_emplace_back(v))

AllocPopBack ==
    /\ Idle
    /\ ~empty(v)
    /\ ReturnedAlloc("pop_back", pop_back(v), alloc_pop_back(v))

AllocClear ==
    /\ Idle
    /\ ReturnedAlloc("clear", clear(v), alloc_clear(v))

AllocShrinkToFit ==
    /\ Idle
    /\ ReturnedAlloc("shrink_to_fit", shrink_to_fit(v, NoFail), alloc_shrink_to_fit(v))

AllocDestructor ==
    /\ Idle
    /\ ReturnedAlloc("destructor", [clear(v) EXCEPT !.c = Destroyed], alloc_clear(v))

NextAlloc ==
    \/ AllocEmplaceBack
    \/ AllocPopBack
    \/ AllocClear
    \/ AllocShrinkToFit
    \/ AllocDestructor
    \/ Resume

SpecAlloc == Init /\ [][NextAlloc]_vars

(***************************************************************************)
(* The claims. last is the call that has just returned, last.pre the       *)
(* container it was made on, v the container it left.                      *)
(***************************************************************************)
Failed(op) == last.op = op /\ ~last.ok
Succeeded(op) == last.op = op /\ last.ok

\* the argument was moved out of an element of the container by the caller's
\* own std::move(v[i])
MovedFromInside == last.src.rv /\ last.src.ali # 0

\* the call was made on a full inline container, so that it spills
AtSpill == last.pre.st = "Inline" /\ Len(last.pre.elems) = N

\* v holds the elements of last.pre with x inserted before index idx
InsertedAt(idx, x) ==
    /\ Len(v.elems) = Len(last.pre.elems) + 1
    /\ \A i \in 1..idx : v.elems[i] = last.pre.elems[i]
    /\ v.elems[idx + 1] = x
    /\ \A i \in (idx + 1)..Len(last.pre.elems) : v.elems[i + 1] = last.pre.elems[i]

\* C1: a push_back / emplace_back / insert that spills a full inline
\* container and ends by an exception leaves the container Inline with the
\* size and the element values it had before the call.
C1_SpillFailureKeepsInline ==
    ((Failed("emplace_back") \/ Failed("insert")) /\ AtSpill /\ ~MovedFromInside)
        => v = last.pre

\* C2: an insert on a Heap container that ends by an exception leaves the
\* container exactly as it was before the call.
C2_HeapInsertFailureKeepsAll ==
    (Failed("insert") /\ last.pre.st = "Heap" /\ ~MovedFromInside) => v = last.pre

\* C3: a shrink_to_fit on a Heap container with size() <= N that ends by an
\* exception leaves the container Heap with the same elements, and destroys
\* every element it built exactly once (constructions minus destructions is
\* what it was before the call).
C3_ShrinkFailureKeepsHeap ==
    (Failed("shrink_to_fit") /\ last.pre.st = "Heap" /\ Len(last.pre.elems) <= N)
        => v = last.pre /\ live = last.plive

\* C4: once the container is destroyed, every element constructed has been
\* destroyed exactly once: constructions == destructions.
C4_DestructorBalance == last.op = "destructor" => live = 0

\* C5: push_back(v[i]) / emplace_back(v[i]) appends the value v[i] had before
\* the call and changes no existing element, in every storage state.
C5_PushBackOfOwnElement ==
    (Succeeded("emplace_back") /\ ~last.src.rv /\ last.src.ali # 0)
        => /\ Len(v.elems) = Len(last.pre.elems) + 1
           /\ v.elems[Len(v.elems)] = last.pre.elems[last.src.ali]
           /\ \A i \in 1..Len(last.pre.elems) : v.elems[i] = last.pre.elems[i]

\* C6: the lvalue insert(pos, v[i]) inserts a copy of the value v[i] had before
\* the call at index pos - begin(), and all elements previously present keep
\* their values and relative order, in every storage state.
C6_InsertOfOwnElement ==
    (Succeeded("insert") /\ ~last.src.rv /\ last.src.ali # 0)
        => InsertedAt(last.idx, last.pre.elems[last.src.ali])

\* C6 witness: a full inline container spills on insert(pos, v[i]) with v[i]
\* before pos, for an element type whose move leaves the source moved-from
C6_Witness ==
    /\ Succeeded("insert") /\ ~last.src.rv /\ AtSpill /\ T.moveMarks
    /\ last.src.ali >= 1 /\ last.src.ali <= last.idx
    /\ last.pre.elems[last.src.ali] \in Values
    /\ v.st = "Heap"

\* C7: size() <= capacity(); Inline: capacity() == N and size() <= N; Heap:
\* capacity() is the capacity of the heap vector.
C7_SizeWithinCapacity ==
    v.st # "Destroyed" =>
        /\ size(v) <= capacity(v)
        /\ v.st = "Inline" => capacity(v) = N /\ size(v) <= N
        /\ v.st = "Heap" => capacity(v) = v.cap

\* C7 witness: a heap container filled to its capacity, beyond N
C7_Witness == v.st = "Heap" /\ size(v) = capacity(v) /\ size(v) > N /\ last.op = "insert"

\* C8 (as claimed): when a call returns the storage is never valueless.
C8_NeverValuelessAtReturn == last.op # "none" => ~is_valueless_(v)

\* the call was a move assignment from a container that was itself valueless
FromValueless == last.op = "move_assign" /\ is_valueless_(last.other)

\* the calls the amended C8 speaks of
RecoveringCalls ==
    {"emplace_back", "pop_back", "insert", "erase", "resize", "resize_value", "reserve",
     "shrink_to_fit", "clear", "move_assign"}

\* C8 (amended): the valueless storage left by a failed shrink_to_fit or move
\* assignment persists after the call; it reads as an empty inline container,
\* no call that returns normally produces it, and the next modifier replaces
\* it on entry (move assignment from a valueless container apart).
C8_ValuelessUntilNextCall ==
    /\ is_valueless_(v) => size(v) = 0 /\ capacity(v) = N /\ is_inline(v)
    /\ (last.op \in RecoveringCalls /\ is_valueless_(v) /\ ~FromValueless)
           => ~last.ok /\ last.op \in {"shrink_to_fit", "move_assign"}
    /\ (last.op \in RecoveringCalls /\ is_valueless_(last.pre) /\ ~FromValueless)
           => ~is_valueless_(v)

\* C8 witness: a modifier was called on a valueless container and returned
C8_Witness == last.op = "emplace_back" /\ is_valueless_(last.pre) /\ v.st = "Inline"

\* C9: from an empty container, after k push_back calls size() == k and the
\* contents are the pushed values in push order, before and after the spill.
C9_PushBackSequence ==
    /\ size(v) = Len(pushed)
    /\ \A i \in 1..Len(pushed) : v.elems[i] = pushed[i]

\* C9 witness: the push that crossed the inline capacity
C9_Witness == Len(pushed) = N + 1 /\ v.st = "Heap" /\ Succeeded("emplace_back")

\* C10: insert(pos, x) with x not part of the container adds exactly one
\* element, x, at index pos - begin(), keeps the others in order and returns
\* an iterator to the inserted element.
C10_InsertOutsideValue ==
    (Succeeded("insert") /\ last.src.ali = 0)
        => /\ InsertedAt(last.idx, last.src.val)
           /\ size(v) = size(last.pre) + 1
           /\ last.ret = last.idx

\* C10 witness: an insert in the middle of a heap container
C10_Witness ==
    /\ Succeeded("insert") /\ last.src.ali = 0 /\ last.pre.st = "Heap"
    /\ last.idx > 0 /\ last.idx < Len(last.pre.elems)

\* the element type takes the rebuild path of an inline insert of last.src
InsertRebuilds == ~T.trivial /\ ~InsertFastPath(last.src)

\* C11: for an element type that takes the inline rebuild path, an insert on an
\* Inline container with size() < N that ends by an exception leaves the size
\* and every element value as they were before the call.
C11_InlineRebuildFailureKeepsAll ==
    (/\ Failed("insert") /\ InsertRebuilds /\ ~MovedFromInside
     /\ last.pre.st = "Inline" /\ Len(last.pre.elems) < N)
        => v = last.pre

\* the element type takes the rebuild path of an inline erase
EraseRebuilds == ~T.trivial /\ ~T.nxMoveAsg

\* C12: an erase that ends by an exception on a Heap container, or on an
\* Inline container whose element type takes the rebuild path, leaves the
\* container exactly as it was: same size, same values, none moved-from.
C12_EraseFailureKeepsAll ==
    (Failed("erase") /\ (last.pre.st = "Heap" \/ (last.pre.st = "Inline" /\ EraseRebuilds)))
        => v = last.pre

\* the element and capacity modifiers other than shrink_to_fit
ElementModifiers ==
    {"emplace_back", "pop_back", "insert", "erase", "resize", "resize_value", "reserve", "clear"}

\* C13: while the storage is Heap no call other than shrink_to_fit decreases
\* capacity(): after any other modifier on a Heap container capacity() is at
\* least what it was before the call.
C13_HeapCapacityNeverDecreases ==
    (last.op \in ElementModifiers /\ last.pre.st = "Heap")
        => capacity(v) >= capacity(last.pre)

\* C14: every element construction and destruction goes through the
\* allocator, so that when the container has been destroyed the allocator
\* has seen as many destroy calls as construct calls.
C14_AllocatorBalance == last.op = "destructor" => alloc_net = 0

\* C15: swap(a, b) exchanges size and contents exactly, whatever the storage
\* states of a and b, and swapping a container with itself leaves it unchanged.
C15_SwapExchanges ==
    /\ Succeeded("swap")
          => /\ v.elems = last.other.elems /\ size(v) = size(last.other)
             /\ last.oafter.elems = last.pre.elems /\ size(last.oafter) = size(last.pre)
    /\ Succeeded("self_swap")
          => v.elems = last.pre.elems /\ size(v) = size(last.pre)

\* C15 witness: an Inline container exchanged with a Heap one, both non-empty,
\* for an element type whose move changes its source
C15_Witness ==
    /\ Succeeded("swap") /\ T.moveMarks
    /\ last.pre.st = "Inline" /\ last.other.st = "Heap"
    /\ Len(last.pre.elems) = N /\ Len(last.other.elems) > N
    /\ last.pre.elems # SubSeq(last.other.elems, 1, N)
    /\ v.st = "Heap"

\* C16: copy construction leaves the source as it was and yields a container
\* with the same size and the same elements, from an Inline and from a Heap
\* source; afterwards a call on the copy leaves the source unchanged and a
\* call on the source leaves the copy unchanged.
C16_CopyEqualAndIndependent ==
    /\ [](Succeeded("copy_construct")
             => v = last.pre /\ size(w.c) = size(v) /\ w.c.elems = v.elems)
    /\ [][(w # NoCopy /\ w' # NoCopy) => (v' = v \/ w' = w)]_vars

\* C16 witness: the copy of a Heap source was changed and the source was not
C16_Witness ==
    /\ last.op = "copy_emplace_back"
    /\ v.st = "Heap" /\ last.other.st = "Heap" /\ last.other.elems = v.elems
    /\ w.c.elems # v.elems /\ v = last.pre

\* the calls that can take an Inline container to the heap
SpillingCalls == {"emplace_back", "insert", "reserve", "resize", "resize_value"}

\* C17: a spill caused by push_back, emplace_back, insert, reserve or resize
\* keeps the values and the order of the elements present before the call,
\* and so does the shrink_to_fit that takes a Heap container back to Inline.
C17_BoundaryKeepsElements ==
    /\ (/\ last.op \in SpillingCalls /\ last.ok /\ ~MovedFromInside
        /\ is_inline(last.pre) /\ v.st = "Heap")
          => LET old_size == Len(last.pre.elems)
                 point == IF last.op = "insert" THEN last.idx ELSE old_size
             IN /\ Len(v.elems) >= old_size
                /\ \A i \in 1..point : v.elems[i] = last.pre.elems[i]
                /\ \A i \in (point + 1)..old_size : v.elems[i + 1] = last.pre.elems[i]
    /\ (Succeeded("shrink_to_fit") /\ last.pre.st = "Heap" /\ v.st = "Inline")
          => v.elems = last.pre.elems

\* C17 witness: reserve takes a full inline container to the heap, for an
\* element type whose move changes its source
C17_Witness ==
    /\ Succeeded("reserve") /\ AtSpill /\ v.st = "Heap" /\ T.moveMarks
    /\ \E i \in 1..N : last.pre.elems[i] # MovedFrom

\* C18: shrink_to_fit changes nothing on an Inline container, makes a Heap
\* container with size <= N Inline with capacity N, leaves a Heap container
\* with size > N on the heap with capacity >= size, and never changes the size
\* or the elements.
C18_ShrinkToFit ==
    Succeeded("shrink_to_fit") =>
        /\ size(v) = size(last.pre) /\ v.elems = last.pre.elems
        /\ is_inline(last.pre) => is_inline(v) /\ capacity(v) = N
        /\ (last.pre.st = "Inline") => v = last.pre
        /\ (last.pre.st = "Heap" /\ size(last.pre) <= N) => v.st = "Inline" /\ capacity(v) = N
        /\ (last.pre.st = "Heap" /\ size(last.pre) > N)
              => v.st = "Heap" /\ capacity(v) >= size(v)

\* C18 witness: a Heap container holding N elements came back to Inline
C18_Witness ==
    /\ Succeeded("shrink_to_fit") /\ last.pre.st = "Heap" /\ size(last.pre) = N
    /\ last.pre.cap > N /\ v.st = "Inline"

\* C19: once the storage is Heap it stays Heap across push_back, emplace_back,
\* pop_back, insert, erase, resize, reserve and clear, whatever the size
\* becomes; of the element and capacity modifiers only shrink_to_fit called
\* with size() <= N takes the container back to Inline.
C19_HeapStaysHeap ==
    /\ (last.op \in ElementModifiers /\ last.pre.st = "Heap") => v.st = "Heap"
    /\ (last.op \in ElementModifiers \cup {"shrink_to_fit"} /\ last.ok
        /\ last.pre.st = "Heap" /\ v.st = "Inline")
          => last.op = "shrink_to_fit" /\ size(last.pre) <= N

\* C19 witness: a Heap container emptied by erase is still on the heap
C19_Witness ==
    /\ Succeeded("erase") /\ last.pre.st = "Heap" /\ size(last.pre) > N
    /\ size(v) = 0 /\ v.st = "Heap"

\* C20: for an element type without assignment operators, insert, erase,
\* push_back and emplace_back perform no element copy or move assignment, in
\* either storage mode.
C20_NoAssignmentForNonAssignable ==
    (~T.moveAsg /\ ~T.copyAsg /\ last.ok) =>
        /\ last.op = "insert" => ~insert_assigns(last.pre, last.idx, last.src)
        /\ last.op = "erase" => ~erase_assigns(last.pre, last.idx, last.cnt)
        /\ last.op = "emplace_back" => ~emplace_back_assigns(last.pre)

\* C21: an insert or erase that starts and ends in the same storage kind keeps
\* the address of every element before the operation point: erase always, and
\* insert when capacity() > size() before the call.
C21_PrefixAddressesKept ==
    /\ (Succeeded("erase") /\ last.pre.st = v.st /\ last.idx > 0)
          => ~erase_relocates(last.pre, last.idx, last.cnt)
    /\ (/\ Succeeded("insert") /\ last.pre.st = v.st /\ last.idx > 0
        /\ capacity(last.pre) > size(last.pre))
          => ~insert_relocates(last.pre, last.idx, last.src)

\* C22: after a call that ends by an exception the container is valid:
\* size() <= capacity(), and exactly the elements at the indices [0, size())
\* are live (the call constructed and destroyed as many elements as the size
\* changed by: none is left constructed beyond size(), none destroyed twice).
C22_ValidAfterFailure ==
    (last.op # "none" /\ ~last.ok)
        => /\ size(v) <= capacity(v)
           /\ live - size(v) = last.plive - size(last.pre)

\* C24: reserve(n) changes nothing (storage kind, capacity, size, elements)
\* when n <= capacity(); otherwise capacity() >= n and the storage is Heap
\* afterwards, and the size, the element values and their order are unchanged.
C24_Reserve ==
    Succeeded("reserve") =>
        /\ size(v) = size(last.pre) /\ v.elems = last.pre.elems
        /\ IF last.cnt <= capacity(last.pre)
           THEN is_inline(v) = is_inline(last.pre) /\ capacity(v) = capacity(last.pre)
           ELSE v.st = "Heap" /\ capacity(v) >= last.cnt

\* C24 witness: reserve beyond N on an inline container that holds an element
C24_Witness ==
    /\ Succeeded("reserve") /\ last.pre.st = "Inline" /\ size(last.pre) = 1
    /\ last.cnt > N /\ v.st = "Heap"

\* the value resize adds: the value-initialised element, or the argument
ResizeFill == IF last.op = "resize" THEN DefaultValue ELSE last.src.val

\* C25: resize(n) and resize(n, value) leave size() == n; the first
\* min(old size, n) elements keep their values and order; the added elements
\* are value-initialised, respectively equal to value; a shrinking resize
\* removes exactly the trailing elements.
C25_Resize ==
    (Succeeded("resize") \/ Succeeded("resize_value")) =>
        LET old == size(last.pre)
            n == last.cnt
        IN /\ size(v) = n
           /\ \A i \in 1..Min(old, n) : v.elems[i] = last.pre.elems[i]
           /\ \A i \in (old + 1)..n : v.elems[i] = ResizeFill

\* C25 witness: resize(n, value) grows a non-empty inline container past N
\* with a value that differs from its first element
C25_Witness ==
    /\ Succeeded("resize_value") /\ last.pre.st = "Inline" /\ size(last.pre) >= 1
    /\ last.cnt > N /\ last.pre.elems[1] \in Values /\ last.src.val # last.pre.elems[1]
    /\ v.st = "Heap"

\* C27: clear() called in any state yields size() == 0, empty() and an empty
\* range [begin(), end()), and leaves the storage kind and capacity()
\* unchanged: Heap keeps its capacity, Inline stays Inline.
C27_Clear ==
    last.op = "clear" =>
        /\ last.ok /\ size(v) = 0 /\ empty(v) /\ v.elems = << >>
        /\ is_inline(v) = is_inline(last.pre)
        /\ capacity(v) = capacity(last.pre)

\* C27 witness: clear on a Heap container with more than N elements
C27_Witness ==
    /\ last.op = "clear" /\ last.pre.st = "Heap" /\ size(last.pre) > N
    /\ v.st = "Heap" /\ capacity(v) > N

\* the accessors without a check of the index
UncheckedAccessors == {"subscript", "front", "back"}

\* C30: at(pos) ends by the out-of-range exception exactly when
\* pos >= size() and otherwise returns the element at index pos; in both
\* cases the size, the elements and the capacity are unchanged; no other
\* accessor raises a bounds error.
C30_At ==
    /\ last.op = "at"
          => /\ (~last.ok) <=> (last.idx >= size(last.pre))
             /\ last.ok => last.ret = last.pre.elems[last.idx + 1]
             /\ size(v) = size(last.pre) /\ v.elems = last.pre.elems
             /\ capacity(v) = capacity(last.pre)
    /\ last.op \in UncheckedAccessors => last.ok

\* C30 witness: at(size()) on a non-empty container ended by the exception
C30_Witness ==
    /\ Failed("at") /\ size(last.pre) > 0 /\ last.idx = size(last.pre) /\ v = last.pre

\* C26: on a non-empty container, Inline or Heap, repeated erase(begin())
\* terminates: each call decreases size() by exactly one and keeps the
\* remaining elements in order, so that after as many calls as the initial
\* size() the container is empty.
C26_EraseFrontTerminates ==
    /\ [](Succeeded("erase")
             => /\ size(v) = size(last.pre) - 1
                /\ v.elems = Tail(last.pre.elems))
    /\ <>(empty(v) /\ last.op = "none")

\* C26 witness: the call of the loop that empties a Heap container
C26_Witness ==
    /\ Succeeded("erase") /\ last.pre.st = "Heap" /\ size(last.pre) = 1
    /\ v.st = "Heap" /\ empty(v) /\ live = 0

C23_MoveAssign ==
    Succeeded("move_assign")
        => /\ size(v) = size(last.other) /\ v.elems = last.other.elems
           /\ size(last.oafter) = 0
           /\ alloc_ = IF Alloc.pocma THEN last.other_alloc ELSE last.alloc
           /\ (~Alloc.pocma /\ last.other.st = "Heap")
                 => (last.stolen <=> (last.alloc = last.other_alloc))

\* C29: swap(a, b) exchanges the allocators when the allocator propagates on
\* swap and leaves both as they are when it does not and they are equal; in
\* both cases the contents are exchanged exactly.
C29_SwapAllocators ==
    (Succeeded("swap") /\ (Alloc.pocs \/ last.alloc = last.other_alloc))
        => /\ alloc_ = IF Alloc.pocs THEN last.other_alloc ELSE last.alloc
           /\ last.oafter_alloc = IF Alloc.pocs THEN last.alloc ELSE last.other_alloc
           /\ v.elems = last.other.elems /\ size(v) = size(last.other)
           /\ last.oafter.elems = last.pre.elems /\ size(last.oafter) = size(last.pre)

\* C29 witness: two Inline containers of different sizes with different
\* allocators were swapped, and the allocators with them
C29_Witness ==
    /\ Succeeded("swap") /\ Alloc.pocs /\ last.alloc # last.other_alloc
    /\ last.pre.st = "Inline" /\ last.other.st = "Inline"
    /\ size(last.pre) > size(last.other) /\ size(last.other) > 0
    /\ alloc_ = last.other_alloc /\ v.st = "Inline"

\* a is less than b in the lexicographic order: they agree on the first k
\* elements, and there a ends while b goes on, or a's next element is less
LexLess(a, b) ==
    \E k \in 0..Min(Len(a), Len(b)) :
        /\ \A i \in 1..k : a[i] = b[i]
        /\ \/ k = Len(a) /\ k < Len(b)
           \/ k < Len(a) /\ k < Len(b) /\ a[k + 1] < b[k + 1]

\* C31: a == b exactly when the sizes are equal and the elements are pairwise
\* equal in order, whatever the storage kinds and capacities; a < b is the
\* lexicographic order of the elements; a != b iff !(a == b), a <= b iff
\* !(b < a), a > b iff b < a, a >= b iff !(a < b).
C31_Comparisons ==
    last.op = "compare"
        => LET a == last.pre.elems
               b == last.other.elems
           IN /\ last.cmp.eq <=> (a = b)
              /\ last.cmp.lt <=> LexLess(a, b)
              /\ last.cmp.ne <=> ~last.cmp.eq
              /\ last.cmp.le <=> ~LexLess(b, a)
              /\ last.cmp.gt <=> LexLess(b, a)
              /\ last.cmp.ge <=> ~last.cmp.lt

\* C31 witness: a Heap container and an Inline container with the same
\* elements compared equal
C31_Witness ==
    /\ last.op = "compare"
    /\ last.pre.st = "Heap" /\ last.other.st = "Inline" /\ size(last.pre) > 1
    /\ last.cmp.eq /\ last.cmp.ge /\ ~last.cmp.lt

\* the calls that rebuild the elements in a second buffer
RebuildingCalls == {"emplace_back", "insert", "erase", "reserve", "shrink_to_fit"}

\* C32: in a rebuild (spill, reserve, shrink_to_fit, inline rebuild insert and
\* erase, heap insert and erase) an element whose move constructor may throw
\* is relocated by copy construction: when such a call of a copy
\* constructible T fails, no element of the container has been moved from
\* (other than the argument of an rvalue insert of an own element).
C32_NoMoveWhenMoveMayThrow ==
    (last.op \in RebuildingCalls /\ ~last.ok /\ T.copyCtor /\ ~T.nxMoveCtor)
        => \A i \in 1..Min(Len(v.elems), Len(last.pre.elems)) :
              v.elems[i] = MovedFrom
                  => \/ last.pre.elems[i] = MovedFrom
                     \/ MovedFromInside /\ last.src.ali = i

\* the call that returned was an insert before end() into an Inline container
\* with room, of a T that is not trivially copyable, on the shift-and-assign
\* path; the argument was not an element of the container, or had been staged
OnInsertFastPath ==
    /\ last.op = "insert"
    /\ ~(last.pre.st = "Heap") /\ size(last.pre) < N /\ last.idx < size(last.pre)
    /\ ~T.trivial /\ InsertFastPath(last.src)
    /\ last.src.ali = 0 \/ last.f # 0

\* the call that returned was an erase from an Inline container on the path
\* that shifts by move assignment
OnEraseFastPath ==
    /\ last.op = "erase" /\ last.cnt > 0
    /\ ~(last.pre.st = "Heap") /\ ~T.trivial /\ T.nxMoveAsg

\* C33: the shift-and-assign path of inline insert and erase is taken only
\* for element types for which none of its steps can throw, so a call on that
\* path never fails.
C33_FastPathNeverFails == (OnInsertFastPath \/ OnEraseFastPath) => last.ok

\* C34: resize(n, v[i]) with n > size() appends n - size() copies of the value
\* v[i] had before the call and leaves the existing elements unchanged, also
\* when the growth moves the container to the heap or reallocates.
C34_ResizeWithOwnElement ==
    (Succeeded("resize_value") /\ last.src.ali # 0 /\ last.cnt > size(last.pre))
        => v.elems = last.pre.elems \o [i \in 1..(last.cnt - size(last.pre)) |-> last.src.val]

\* C35: a container filled only by push_back from empty is Inline with
\* capacity() == N while its size is at most N; the push that takes the size
\* to N + 1 spills it to a heap buffer of capacity at least
\* max(2N, N + N/2 + 1), which is 2N for every N >= 1, so capacity() > N.
C35_CapacityAcrossSpill ==
    /\ Len(pushed) <= N => v.st = "Inline" /\ capacity(v) = N
    /\ Len(pushed) = N + 1
          => /\ v.st = "Heap"
             /\ capacity(v) >= Max(2 * N, N + (N \div 2) + 1)
             /\ capacity(v) > N
    /\ \A n \in 1..(N + MaxCap) : Max(2 * n, n + (n \div 2) + 1) = 2 * n

\* C35 witness: the push that took the size from N to N + 1 returned
C35_Witness ==
    /\ Succeeded("emplace_back") /\ Len(pushed) = N + 1
    /\ last.pre.st = "Inline" /\ size(last.pre) = N /\ capacity(last.pre) = N
    /\ capacity(v) >= 2 * N

\* C36: after y(std::move(x)), y holds the elements x held, in order, and has
\* the storage kind x had; x is empty and Inline (size() == 0,
\* capacity() == N); y's allocator is x's allocator.
C36_MoveConstruct ==
    Succeeded("move_construct")
        => /\ last.oafter.elems = last.pre.elems
           /\ last.oafter.st = last.pre.st
           /\ v.st = "Inline" /\ size(v) = 0 /\ capacity(v) = N
           /\ last.oafter_alloc = last.alloc

\* C36 witness: a Heap container with elements and the second allocator was
\* moved from
C36_Witness ==
    /\ Succeeded("move_construct") /\ size(last.pre) > 0 /\ empty(v)
    /\ last.pre.st = "Heap" /\ last.oafter.st = "Heap" /\ last.alloc = 2

\* C37: swap(a, b) also exchanges the storage kind and the capacity: a is Heap
\* afterwards exactly when b was Heap before, capacity() of each is the
\* other's previous capacity, and the two containers hold as many live
\* elements after the swap as before it.
C37_SwapStorageAndCapacity ==
    Succeeded("swap")
        => /\ (v.st = "Heap") <=> (last.other.st = "Heap")
           /\ (last.oafter.st = "Heap") <=> (last.pre.st = "Heap")
           /\ capacity(v) = capacity(last.other)
           /\ capacity(last.oafter) = capacity(last.pre)
           /\ live + size(last.oafter) = last.plive + size(last.other)

\* C37 witness: a Heap container with spare capacity was swapped with a
\* non-empty Inline one
C37_Witness ==
    /\ Succeeded("swap")
    /\ last.pre.st = "Heap" /\ capacity(last.pre) > size(last.pre) /\ size(last.pre) > 0
    /\ last.other.st = "Inline" /\ size(last.other) > 0
    /\ v.st = "Inline" /\ capacity(v) = N
    /\ last.oafter.st = "Heap" /\ capacity(last.oafter) = capacity(last.pre)

\* C38: the rvalue insert(pos, std::move(v[i])) increases size() by one and
\* places the value v[i] had before the call at index pos - begin(); every
\* other element keeps its value and relative order, and only the source
\* element is left moved-from; Inline with room, at the spill and on Heap.
C38_RvalueInsertOfOwnElement ==
    (Succeeded("insert") /\ MovedFromInside)
        => /\ size(v) = size(last.pre) + 1
           /\ v.elems[last.idx + 1] = last.pre.elems[last.src.ali]
           /\ \A i \in 1..Len(last.pre.elems) :
                 LET now == v.elems[IF i <= last.idx THEN i ELSE i + 1]
                 IN IF i = last.src.ali
                    THEN now = (IF T.moveMarks THEN MovedFrom ELSE last.pre.elems[i])
                    ELSE now = last.pre.elems[i]

\* C38 witness: an element of a Heap container was inserted by rvalue before
\* another position, for an element type whose move changes its source
C38_Witness ==
    /\ Succeeded("insert") /\ MovedFromInside /\ T.moveMarks
    /\ last.pre.st = "Heap" /\ last.src.ali > last.idx + 1
    /\ last.pre.elems[last.src.ali] \in Values
    /\ v.elems[last.src.ali + 1] = MovedFrom

\* C39: in every reachable state capacity() >= N, also for a Heap container
\* after insert, erase or a shrinking resize.
C39_CapacityAtLeastN == v.st # "Destroyed" => capacity(v) >= N

\* the copy assignment failed in the copy construction of an element of b:
\* construct_at_(d + i, s[i]) for b of size at most N, vec.emplace_back(s[i])
\* (after vec.reserve(n)) for a larger one
FailedWhileCopying ==
    /\ Failed("copy_assign")
    /\ IF size(last.other) <= N THEN last.f >= 0 /\ last.f < size(last.other)
       ELSE last.f >= 1 /\ last.f <= size(last.other)

\* C40: when the copy assignment a = b fails while copying an element, b is
\* unchanged and a is left valid and empty, and every element a held before
\* the call and every element already copied has been destroyed exactly once.
C40_CopyAssignFailure ==
    FailedWhileCopying
        => /\ last.oafter = last.other /\ last.oafter_alloc = last.other_alloc
           /\ v.st \in {"Inline", "Heap"} /\ v.elems = << >> /\ size(v) = 0
           /\ live = last.plive - Len(last.pre.elems)

\* C40 witness: a = b failed at the third element of a Heap b, a holding
\* elements of its own before the call
C40_Witness ==
    /\ FailedWhileCopying /\ last.other.st = "Heap" /\ size(last.other) > N /\ last.f = 3
    /\ size(last.pre) > 0 /\ empty(v)

====
